---- MODULE Spec2Model ----
(***************************************************************************)
(* express-jobly: the SQL clause builders (helpers/sql.js,                 *)
(* Company._sqlForFilter, Job._sqlForFilter) and the job model that        *)
(* splices their output into statements run against the jobs table.        *)
(*                                                                         *)
(* JavaScript values are tagged records, objects are sequences of          *)
(* key/value entries in property order, and SQL text is a sequence of      *)
(* string pieces (Render concatenates them into the statement text).       *)
(***************************************************************************)
EXTENDS Integers, Sequences, FiniteSets, TLC

VARIABLES op, arg, ret, jobs, query, calls, companies, nextId, log, pc

vars == <<op, arg, ret, jobs, query, calls, companies, nextId, log, pc>>

----------------------------------------------------------------------------
(* Bounds of the model *)

\* largest number of entries of a dataToUpdate object
MaxFields == 3
\* largest minEmployees / maxEmployees drawn for a company filter
MaxEmployees == 2
\* largest minSalary drawn for a job filter
MaxSalary == 2
\* largest number of calls of the job model in one behaviour
MaxCalls == 2

\* builder calls made one after another
MaxBuilderCalls == 3

\* job model calls made one after another
MaxJobCalls == 3

\* parameters in the query string of a request
MaxQueryKeys == 2

----------------------------------------------------------------------------
(* JavaScript values *)

Str(s) == [t |-> "string", n |-> 0, s |-> s]
Num(n) == [t |-> "number", n |-> n, s |-> ""]
Bool(b) == [t |-> "boolean", n |-> IF b THEN 1 ELSE 0, s |-> ""]
Null == [t |-> "null", n |-> 0, s |-> ""]
Undefined == [t |-> "undefined", n |-> 0, s |-> ""]

\* ToBoolean: what `if (v)`, `a && b` and `a || b` test
Truthy(v) ==
  CASE v.t = "string" -> v.s # ""
    [] v.t = "number" -> v.n # 0
    [] v.t = "boolean" -> v.n = 1
    [] OTHER -> FALSE

\* ToString: what `${v}` interpolates into a template literal
ToStr(v) ==
  CASE v.t = "string" -> v.s
    [] v.t = "number" -> ToString(v.n)
    [] v.t = "boolean" -> IF v.n = 1 THEN "true" ELSE "false"
    [] v.t = "null" -> "null"
    [] OTHER -> "undefined"

\* a || b
OrElse(a, b) == IF Truthy(a) THEN a ELSE b

\* a < b on two numbers
LessThan(a, b) == a.n < b.n

----------------------------------------------------------------------------
(* JavaScript objects: entries [k, v] in property order, keys distinct *)

Entry(k, v) == [k |-> k, v |-> v]

\* Object.keys(o)
ObjectKeys(o) == [i \in 1..Len(o) |-> o[i].k]

\* Object.values(o)
ObjectValues(o) == [i \in 1..Len(o) |-> o[i].v]

\* k in o
In(k, o) == \E i \in 1..Len(o) : o[i].k = k

\* o[k], o.k
Get(o, k) ==
  IF In(k, o) THEN o[CHOOSE i \in 1..Len(o) : o[i].k = k].v ELSE Undefined

\* the objects with at most n entries drawn from the entry set E
ObjectsOver(E, n) ==
  UNION { { o \in [1..m -> E] :
              \A i, j \in 1..m : o[i].k = o[j].k => i = j } : m \in 0..n }

----------------------------------------------------------------------------
(* SQL text *)

\* the placeholder $k
Placeholder(k) == "$" \o ToString(k)

RECURSIVE Join(_, _)
\* frags.join(sep): the pieces of the fragments with sep between fragments
Join(frags, sep) ==
  IF Len(frags) = 0 THEN << >>
  ELSE IF Len(frags) = 1 THEN frags[1]
  ELSE frags[1] \o <<sep>> \o Join(Tail(frags), sep)

RECURSIVE Render(_)
\* the text as one string
Render(text) ==
  IF Len(text) = 0 THEN "" ELSE text[1] \o Render(Tail(text))

RECURSIVE SplitOn(_, _)
\* the fragments of a text, cut at each piece equal to sep (none in an empty text)
SplitOn(text, sep) ==
  IF text = << >> THEN << >>
  ELSE IF \A i \in 1..Len(text) : text[i] # sep THEN << text >>
  ELSE LET c == CHOOSE i \in 1..Len(text) :
                  text[i] = sep /\ \A j \in 1..(i - 1) : text[j] # sep
       IN << SubSeq(text, 1, c - 1) >> \o SplitOn(SubSeq(text, c + 1, Len(text)), sep)

\* outcomes of a call
Throw(e, m) == [threw |-> TRUE, err |-> e, message |-> m]
Return(v) == [threw |-> FALSE, value |-> v]
Pending == [threw |-> FALSE, pending |-> TRUE]

----------------------------------------------------------------------------
(* helpers/sql.js *)

\* SetFragment numbering the placeholders from $0: `$${idx}`
SetFragment_ZeroBased(colName, idx, jsToSql) ==
  << "\"", ToStr(OrElse(Get(jsToSql, colName), Str(colName))), "\"=",
     Placeholder(idx) >>

\* SetFragment that never consults jsToSql
SetFragment_NoTranslation(colName, idx, jsToSql) ==
  << "\"", colName, "\"=", Placeholder(idx + 1) >>

\* `"${jsToSql[colName] || colName}"=$${idx + 1}`
SetFragment(colName, idx, jsToSql) ==
  << "\"", ToStr(OrElse(Get(jsToSql, colName), Str(colName))), "\"=",
     Placeholder(idx + 1) >>

\* sqlForPartialUpdate without the `keys.length === 0` check
sqlForPartialUpdate_NoEmptyCheck(dataToUpdate, jsToSql) ==
  LET keys == ObjectKeys(dataToUpdate)
      cols == [i \in 1..Len(keys) |-> SetFragment(keys[i], i - 1, jsToSql)]
  IN Return([setCols |-> Join(cols, ", "),
             values |-> ObjectValues(dataToUpdate)])

\* sqlForPartialUpdate leaving the null values out of the value list
sqlForPartialUpdate_DropsNull(dataToUpdate, jsToSql) ==
  LET keys == ObjectKeys(dataToUpdate)
      cols == [i \in 1..Len(keys) |-> SetFragment(keys[i], i - 1, jsToSql)]
      NotNull(v) == v.t # "null"
  IN IF Len(keys) = 0 THEN Throw("BadRequestError", "No data")
     ELSE Return([setCols |-> Join(cols, ", "),
                  values |-> SelectSeq(ObjectValues(dataToUpdate), NotNull)])

sqlForPartialUpdate(dataToUpdate, jsToSql) ==
  LET keys == ObjectKeys(dataToUpdate)
      cols == [i \in 1..Len(keys) |-> SetFragment(keys[i], i - 1, jsToSql)]
  IN IF Len(keys) = 0 THEN Throw("BadRequestError", "No data")
     ELSE Return([setCols |-> Join(cols, ", "),
                  values |-> ObjectValues(dataToUpdate)])

----------------------------------------------------------------------------
(* models/company.js: Company._sqlForFilter *)

\* the range check written with <=, so that equal bounds are refused too
CompanyRangeError_RejectsEqual(filterParams) ==
  /\ Truthy(Get(filterParams, "maxEmployees"))
  /\ Truthy(Get(filterParams, "minEmployees"))
  /\ ~LessThan(Get(filterParams, "minEmployees"), Get(filterParams, "maxEmployees"))

\* the range check that opens Company._sqlForFilter
CompanyRangeError(filterParams) ==
  /\ Truthy(Get(filterParams, "maxEmployees"))
  /\ Truthy(Get(filterParams, "minEmployees"))
  /\ LessThan(Get(filterParams, "maxEmployees"), Get(filterParams, "minEmployees"))

\* CompanyPushNameLike pushing the search string without the % wildcards
CompanyPushNameLike_NoWildcards(filterParams, acc) ==
  IF In("nameLike", filterParams)
  THEN [params |-> Append(acc.params,
                     << "name ILIKE ", Placeholder(Len(acc.params) + 1) >>),
        values |-> Append(acc.values, Get(filterParams, "nameLike"))]
  ELSE acc

\* if ("nameLike" in filterParams) { params.push(..); values.push(..) }
CompanyPushNameLike(filterParams, acc) ==
  IF In("nameLike", filterParams)
  THEN [params |-> Append(acc.params,
                     << "name ILIKE ", Placeholder(Len(acc.params) + 1) >>),
        values |-> Append(acc.values,
                     Str("%" \o ToStr(Get(filterParams, "nameLike")) \o "%"))]
  ELSE acc

\* if ("minEmployees" in filterParams) { params.push(..); values.push(..) }
CompanyPushMinEmployees(filterParams, acc) ==
  IF In("minEmployees", filterParams)
  THEN [params |-> Append(acc.params,
                     << "num_employees >= ", Placeholder(Len(acc.params) + 1) >>),
        values |-> Append(acc.values, Get(filterParams, "minEmployees"))]
  ELSE acc

\* if ("maxEmployees" in filterParams) { params.push(..); values.push(..) }
CompanyPushMaxEmployees(filterParams, acc) ==
  IF In("maxEmployees", filterParams)
  THEN [params |-> Append(acc.params,
                     << "num_employees <= ", Placeholder(Len(acc.params) + 1) >>),
        values |-> Append(acc.values, Get(filterParams, "maxEmployees"))]
  ELSE acc

Company_sqlForFilter(filterParams) ==
  IF CompanyRangeError(filterParams)
  THEN Throw("BadRequestError",
             "Minimum Employees must be less than Maximum Employees")
  ELSE LET a0 == [params |-> << >>, values |-> << >>]
           a1 == CompanyPushNameLike(filterParams, a0)
           a2 == CompanyPushMinEmployees(filterParams, a1)
           a3 == CompanyPushMaxEmployees(filterParams, a2)
       IN Return([whereStatement |-> Join(a3.params, " AND "),
                  values |-> a3.values])

----------------------------------------------------------------------------
(* models/job.js: Job._sqlForFilter *)

\* JobPushTitleLike writing the search string into the text: `title ILIKE '%${v}%'`
JobPushTitleLike_Interpolated(filterParams, acc) ==
  IF In("titleLike", filterParams)
  THEN [params |-> Append(acc.params,
                     << "title ILIKE ", "'%", ToStr(Get(filterParams, "titleLike")), "%'" >>),
        values |-> acc.values]
  ELSE acc

\* if ("titleLike" in filterParams) { params.push(..); values.push(..) }
JobPushTitleLike(filterParams, acc) ==
  IF In("titleLike", filterParams)
  THEN [params |-> Append(acc.params,
                     << "title ILIKE ", Placeholder(Len(acc.params) + 1) >>),
        values |-> Append(acc.values,
                     Str("%" \o ToStr(Get(filterParams, "titleLike")) \o "%"))]
  ELSE acc

\* JobPushMinSalary with the placeholder written out as the second: `salary >= $2`
JobPushMinSalary_SecondPlace(filterParams, acc) ==
  IF In("minSalary", filterParams)
  THEN [params |-> Append(acc.params, << "salary >= ", Placeholder(2) >>),
        values |-> Append(acc.values, Get(filterParams, "minSalary"))]
  ELSE acc

\* JobPushMinSalary numbering its placeholder with a count kept across calls
JobPushMinSalary_CountsCalls(filterParams, acc) ==
  IF In("minSalary", filterParams)
  THEN [params |-> Append(acc.params,
                     << "salary >= ", Placeholder(Len(acc.values) + 1 + Len(log)) >>),
        values |-> Append(acc.values, Get(filterParams, "minSalary"))]
  ELSE acc

\* if ("minSalary" in filterParams) { params.push(..); values.push(..) }
JobPushMinSalary(filterParams, acc) ==
  IF In("minSalary", filterParams)
  THEN [params |-> Append(acc.params,
                     << "salary >= ", Placeholder(Len(acc.params) + 1) >>),
        values |-> Append(acc.values, Get(filterParams, "minSalary"))]
  ELSE acc

\* JobPushHasEquity testing only that the key is there: `if ("hasEquity" in filterParams)`
JobPushHasEquity_IgnoresValue(filterParams, acc) ==
  IF In("hasEquity", filterParams)
  THEN [params |-> Append(acc.params, << "equity > 0" >>),
        values |-> acc.values]
  ELSE acc

\* JobPushHasEquity binding the zero like the other criteria: `equity > $n`, push 0
JobPushHasEquity_Bound(filterParams, acc) ==
  IF In("hasEquity", filterParams) /\ Truthy(Get(filterParams, "hasEquity"))
  THEN [params |-> Append(acc.params,
                     << "equity > ", Placeholder(Len(acc.params) + 1) >>),
        values |-> Append(acc.values, Num(0))]
  ELSE acc

\* if ("hasEquity" in filterParams && filterParams.hasEquity) { params.push(..) }
JobPushHasEquity(filterParams, acc) ==
  IF In("hasEquity", filterParams) /\ Truthy(Get(filterParams, "hasEquity"))
  THEN [params |-> Append(acc.params, << "equity > 0" >>),
        values |-> acc.values]
  ELSE acc

RECURSIVE JobWalkInputOrder(_, _, _)
\* the three pushes made in the order of the keys of filterParams, from entry i
JobWalkInputOrder(filterParams, i, acc) ==
  IF i > Len(filterParams) THEN acc
  ELSE LET one == << filterParams[i] >>
       IN JobWalkInputOrder(filterParams, i + 1,
            JobPushHasEquity(one, JobPushMinSalary(one, JobPushTitleLike(one, acc))))

\* Job._sqlForFilter walking Object.keys(filterParams) instead of the fixed order
Job_sqlForFilter_InputOrder(filterParams) ==
  LET a3 == JobWalkInputOrder(filterParams, 1, [params |-> << >>, values |-> << >>])
  IN IF Len(a3.params) = 0
     THEN Throw("BadRequestError", "No search valid search parameters")
     ELSE Return([whereStatement |-> Join(a3.params, " AND "),
                  values |-> a3.values])

Job_sqlForFilter(filterParams) ==
  LET a0 == [params |-> << >>, values |-> << >>]
      a1 == JobPushTitleLike(filterParams, a0)
      a2 == JobPushMinSalary(filterParams, a1)
      a3 == JobPushHasEquity(filterParams, a2)
  IN IF Len(a3.params) = 0
     THEN Throw("BadRequestError", "No search valid search parameters")
     ELSE Return([whereStatement |-> Join(a3.params, " AND "),
                  values |-> a3.values])

----------------------------------------------------------------------------
(* The inputs the builders are called with *)

\* field names and values of a patch body
UpdateKeys == {"firstName", "age", "numEmployees", "logoUrl"}
UpdateValues == {Str("Aliya"), Num(32), Null}
UpdateEntries == {Entry(k, v) : k \in UpdateKeys, v \in UpdateValues}
DataToUpdateInputs == ObjectsOver(UpdateEntries, MaxFields)

\* the translation tables: none, the one of the helper's test, Company.update's
JsToSqlInputs ==
  { << >>,
    << Entry("firstName", Str("first_name")) >>,
    << Entry("numEmployees", Str("num_employees")),
       Entry("logoUrl", Str("logo_url")) >> }

\* search strings of a substring-match key
LikeStrings == {"net", "c"}

CompanyFilterEntries ==
  {Entry("nameLike", Str(s)) : s \in LikeStrings}
    \cup {Entry("minEmployees", Num(n)) : n \in 0..MaxEmployees}
    \cup {Entry("maxEmployees", Num(n)) : n \in 0..MaxEmployees}
CompanyFilterInputs == ObjectsOver(CompanyFilterEntries, Cardinality({"nameLike", "minEmployees", "maxEmployees"}))

JobFilterEntries ==
  {Entry("titleLike", Str(s)) : s \in LikeStrings}
    \cup {Entry("minSalary", Num(n)) : n \in 0..MaxSalary}
    \cup {Entry("hasEquity", Bool(b)) : b \in BOOLEAN}
JobFilterInputs == ObjectsOver(JobFilterEntries, Cardinality({"titleLike", "minSalary", "hasEquity"}))

----------------------------------------------------------------------------
(* The jobs table and the statements run against it *)

\* the rows the model tests start from: id -> row, as the database returns it
InitJobs ==
  (1 :> [title |-> Str("j1"), salary |-> Num(1), equity |-> Str("0.1"),
         company_handle |-> Str("c1")])
    @@ (2 :> [title |-> Str("j2"), salary |-> Num(2), equity |-> Str("0.2"),
              company_handle |-> Str("c2")])

\* the companies the tests start from: handle -> row
InitCompanies ==
  ("c1" :> [name |-> Str("C1"), description |-> Str("Desc1"),
            num_employees |-> Num(1), logo_url |-> Str("http://c1.img")])
    @@ ("c2" :> [name |-> Str("C2"), description |-> Str("Desc2"),
                 num_employees |-> Num(2), logo_url |-> Str("http://c2.img")])
    @@ ("c3" :> [name |-> Str("C3"), description |-> Str("Desc3"),
                 num_employees |-> Num(3), logo_url |-> Str("http://c3.img")])

\* the id the jobs_id_seq sequence hands out next, after j1 and j2
InitNextId == 3

\* no statement issued
NoQuery == [text |-> << >>, values |-> << >>]

\* the number k of the placeholder $k, among the bound values
PlaceholderIndex(tok, values) ==
  CHOOSE k \in 1..Len(values) : Placeholder(k) = tok

\* what a column holds, and hands back, after it was assigned v:
\* NULL stays NULL, a NUMERIC column comes back as text
PgStore(col, v) ==
  IF v.t = "null" THEN Null
  ELSE IF col = "equity" THEN Str(ToStr(v))
  ELSE v

\* UPDATE jobs SET <"col"=$k, ...> WHERE id = $m RETURNING ...
\* the table after the statement and the rows it returns
ExecUpdateJobs(table, q) ==
  LET w == CHOOSE i \in 1..Len(q.text) : q.text[i] = " WHERE id = "
      setCols == SubSeq(q.text, 2, w - 1)
      n == (Len(setCols) + 1) \div 5
      col(j) == setCols[5 * (j - 1) + 2]
      val(j) == q.values[PlaceholderIndex(setCols[5 * (j - 1) + 4], q.values)]
      key == q.values[PlaceholderIndex(q.text[w + 1], q.values)]
      hit == {id \in DOMAIN table : Num(id) = key}
      set(row) ==
        [c \in DOMAIN row |->
           IF \E j \in 1..n : col(j) = c
           THEN PgStore(c, val(CHOOSE j \in 1..n : col(j) = c))
           ELSE row[c]]
      after == [id \in DOMAIN table |->
                  IF id \in hit THEN set(table[id]) ELSE table[id]]
  IN [table |-> after,
      rows |-> {[id |-> Num(id), title |-> after[id].title,
                 salary |-> after[id].salary, equity |-> after[id].equity,
                 companyHandle |-> after[id].company_handle] : id \in hit}]

----------------------------------------------------------------------------
(* models/job.js: Job.update *)

\* JobUpdateQuery with the id bound to the first placeholder: `WHERE id = $1`
JobUpdateQuery_FirstPlaceholder(id, setCols, values) ==
  [text |-> << "UPDATE jobs SET " >> \o setCols
              \o << " WHERE id = ", Placeholder(1),
                    " RETURNING id, title, salary, equity, company_handle AS \"companyHandle\"" >>,
   values |-> values \o << Num(id) >>]

\* the statement Job.update hands to db.query
JobUpdateQuery(id, setCols, values) ==
  LET idVarIdx == Placeholder(Len(values) + 1)
  IN [text |-> << "UPDATE jobs SET " >> \o setCols
                 \o << " WHERE id = ", idVarIdx,
                       " RETURNING id, title, salary, equity, company_handle AS \"companyHandle\"" >>,
      values |-> values \o << Num(id) >>]

\* Job.update(id, data): the outcome, the table after it, the statement issued
Job_update(table, id, data) ==
  LET built == sqlForPartialUpdate(data, << >>)
      q == JobUpdateQuery(id, built.value.setCols, built.value.values)
      result == ExecUpdateJobs(table, q)
  IN IF built.threw
     THEN [ret |-> built, table |-> table, query |-> NoQuery]
     ELSE IF result.rows = {}
     THEN [ret |-> Throw("NotFoundError", "No job: " \o ToString(id)),
           table |-> result.table, query |-> q]
     ELSE [ret |-> Return(CHOOSE job \in result.rows : TRUE),
           table |-> result.table, query |-> q]

\* ids the job model is called with: 0 is the id of no row, 1 the id of j1
JobIds == {0, 1}

JobUpdateEntries ==
  {Entry("title", Str("New")), Entry("salary", Num(10)), Entry("salary", Null),
   Entry("equity", Num(1)), Entry("equity", Null)}
JobUpdateInputs == ObjectsOver(JobUpdateEntries, MaxFields)

----------------------------------------------------------------------------
(* The builders as a state machine: a call is drawn, then it runs *)

InitSql ==
  /\ jobs = InitJobs
  /\ query = NoQuery
  /\ calls = 0
  /\ companies = InitCompanies
  /\ nextId = InitNextId
  /\ log = << >>
  /\ pc = << >>
  /\ ret = Pending
  /\ \/ /\ op = "sqlForPartialUpdate"
        /\ arg \in [dataToUpdate : DataToUpdateInputs, jsToSql : JsToSqlInputs]
     \/ /\ op = "Company._sqlForFilter"
        /\ arg \in [filterParams : CompanyFilterInputs]
     \/ /\ op = "Job._sqlForFilter"
        /\ arg \in [filterParams : JobFilterInputs]

RunSqlForPartialUpdate ==
  /\ op = "sqlForPartialUpdate"
  /\ ret = Pending
  /\ ret' = sqlForPartialUpdate(arg.dataToUpdate, arg.jsToSql)
  /\ log' = Append(log, [op |-> op, arg |-> arg, ret |-> ret'])
  /\ UNCHANGED <<op, arg, jobs, query, calls, companies, nextId, pc>>

RunCompanySqlForFilter ==
  /\ op = "Company._sqlForFilter"
  /\ ret = Pending
  /\ ret' = Company_sqlForFilter(arg.filterParams)
  /\ log' = Append(log, [op |-> op, arg |-> arg, ret |-> ret'])
  /\ UNCHANGED <<op, arg, jobs, query, calls, companies, nextId, pc>>

RunJobSqlForFilter ==
  /\ op = "Job._sqlForFilter"
  /\ ret = Pending
  /\ ret' = Job_sqlForFilter(arg.filterParams)
  /\ log' = Append(log, [op |-> op, arg |-> arg, ret |-> ret'])
  /\ UNCHANGED <<op, arg, jobs, query, calls, companies, nextId, pc>>

NextSql == RunSqlForPartialUpdate \/ RunCompanySqlForFilter \/ RunJobSqlForFilter

SpecSql == InitSql /\ [][NextSql]_vars

----------------------------------------------------------------------------
(* models/job.js: Job.get, Job.remove *)

\* SELECT ... FROM jobs JOIN companies ON company_handle = companies.handle
\* WHERE id = $1: the rows returned
ExecSelectJob(jobsTable, companiesTable, q) ==
  LET key == q.values[PlaceholderIndex(q.text[2], q.values)]
  IN { [id |-> Num(id), title |-> jobsTable[id].title,
        salary |-> jobsTable[id].salary, equity |-> jobsTable[id].equity,
        handle |-> Str(h), name |-> companiesTable[h].name,
        description |-> companiesTable[h].description,
        numEmployees |-> companiesTable[h].num_employees,
        logoUrl |-> companiesTable[h].logo_url] :
        <<id, h>> \in { p \in (DOMAIN jobsTable) \X (DOMAIN companiesTable) :
                          /\ jobsTable[p[1]].company_handle = Str(p[2])
                          /\ Num(p[1]) = key } }

\* Job.get(jobId): the outcome and the statement issued
Job_get(jobsTable, companiesTable, jobId) ==
  LET q == [text |-> << "SELECT id, title, salary, equity, handle, name, description, num_employees AS \"numEmployees\", logo_url AS \"logoUrl\" FROM jobs JOIN companies ON company_handle = companies.handle WHERE id = ",
                        Placeholder(1) >>,
            values |-> << Num(jobId) >>]
      rows == ExecSelectJob(jobsTable, companiesTable, q)
      job == CHOOSE r \in rows : TRUE
  IN IF rows = {}
     THEN [ret |-> Throw("NotFoundError", "No job: " \o ToString(jobId)), query |-> q]
     ELSE [ret |-> Return([id |-> job.id, title |-> job.title, salary |-> job.salary,
                           equity |-> job.equity,
                           company |-> [handle |-> job.handle, name |-> job.name,
                                        description |-> job.description,
                                        numEmployees |-> job.numEmployees,
                                        logoUrl |-> job.logoUrl]]),
           query |-> q]

\* DELETE FROM jobs WHERE id = $1 RETURNING id: the table after the
\* statement and the rows it returns
ExecDeleteJobs(table, q) ==
  LET key == q.values[PlaceholderIndex(q.text[2], q.values)]
      hit == {id \in DOMAIN table : Num(id) = key}
  IN [table |-> [id \in DOMAIN table \ hit |-> table[id]],
      rows |-> {[id |-> Num(id)] : id \in hit}]

\* Job.remove with a statement that lacks the WHERE clause: `DELETE FROM jobs RETURNING id`
Job_remove_NoWhere(table, id) ==
  LET q == [text |-> << "DELETE FROM jobs RETURNING id" >>, values |-> << >>]
  IN IF DOMAIN table = {}
     THEN [ret |-> Throw("NotFoundError", "No job: " \o ToString(id)),
           table |-> table, query |-> q]
     ELSE [ret |-> Return(Undefined), table |-> [i \in {} |-> table[i]], query |-> q]

\* Job.remove without the `if (!job) throw` after the statement
Job_remove_NoCheck(table, id) ==
  LET q == [text |-> << "DELETE FROM jobs WHERE id = ", Placeholder(1), " RETURNING id" >>,
            values |-> << Num(id) >>]
      result == ExecDeleteJobs(table, q)
  IN [ret |-> Return(Undefined), table |-> result.table, query |-> q]

\* Job.remove(id): the outcome, the table after it, the statement issued
Job_remove(table, id) ==
  LET q == [text |-> << "DELETE FROM jobs WHERE id = ", Placeholder(1), " RETURNING id" >>,
            values |-> << Num(id) >>]
      result == ExecDeleteJobs(table, q)
  IN IF result.rows = {}
     THEN [ret |-> Throw("NotFoundError", "No job: " \o ToString(id)),
           table |-> result.table, query |-> q]
     ELSE [ret |-> Return(Undefined), table |-> result.table, query |-> q]

----------------------------------------------------------------------------
(* models/job.js: Job.create *)

\* INSERT INTO jobs(title, salary, equity, company_handle) VALUES ($1..$4)
\* RETURNING ...: the table after the statement, the rows it returns; the
\* id comes from the sequence
ExecInsertJob(table, id, q) ==
  LET row == [title |-> PgStore("title", q.values[1]),
              salary |-> PgStore("salary", q.values[2]),
              equity |-> PgStore("equity", q.values[3]),
              company_handle |-> PgStore("company_handle", q.values[4])]
  IN [table |-> (id :> row) @@ table,
      rows |-> {[id |-> Num(id), title |-> row.title, salary |-> row.salary,
                 equity |-> row.equity, companyHandle |-> row.company_handle]}]

\* Job.create({ title, salary, equity, companyHandle })
Job_create(table, id, data) ==
  LET q == [text |-> << "INSERT INTO jobs(title, salary, equity, company_handle) VALUES (",
                        Placeholder(1), ", ", Placeholder(2), ", ", Placeholder(3), ", ",
                        Placeholder(4),
                        ") RETURNING id, title, salary, equity, company_handle AS \"companyHandle\"" >>,
            values |-> << Get(data, "title"), Get(data, "salary"),
                          Get(data, "equity"), Get(data, "companyHandle") >>]
      result == ExecInsertJob(table, id, q)
  IN [ret |-> Return(CHOOSE job \in result.rows : TRUE),
      table |-> result.table, query |-> q]

\* the job the tests create
NewJob ==
  << Entry("title", Str("j3")), Entry("salary", Num(3)), Entry("equity", Num(0)),
     Entry("companyHandle", Str("c3")) >>

----------------------------------------------------------------------------
(* models/company.js: Company.create *)

\* SELECT handle FROM companies WHERE handle = $1: the rows returned
ExecSelectCompanyHandle(table, q) ==
  {[handle |-> Str(h)] : h \in {k \in DOMAIN table : Str(k) = q.values[1]}}

\* INSERT INTO companies(handle, name, description, num_employees, logo_url)
\* VALUES ($1..$5) RETURNING ...: the table after the statement and the rows
\* it returns; the store refuses a second row with a handle it has
ExecInsertCompany(table, q) ==
  LET h == q.values[1].s
      row == [name |-> PgStore("name", q.values[2]),
              description |-> PgStore("description", q.values[3]),
              num_employees |-> PgStore("num_employees", q.values[4]),
              logo_url |-> PgStore("logo_url", q.values[5])]
  IN IF h \in DOMAIN table
     THEN [failed |-> TRUE, table |-> table, rows |-> {}]
     ELSE [failed |-> FALSE, table |-> (h :> row) @@ table,
           rows |-> {[handle |-> Str(h), name |-> row.name,
                      description |-> row.description,
                      numEmployees |-> row.num_employees,
                      logoUrl |-> row.logo_url]}]

\* the INSERT statement of Company.create
CompanyInsertQuery(data) ==
  [text |-> << "INSERT INTO companies(handle, name, description, num_employees, logo_url) VALUES (",
               Placeholder(1), ", ", Placeholder(2), ", ", Placeholder(3), ", ",
               Placeholder(4), ", ", Placeholder(5),
               ") RETURNING handle, name, description, num_employees AS \"numEmployees\", logo_url AS \"logoUrl\"" >>,
   values |-> << Get(data, "handle"), Get(data, "name"), Get(data, "description"),
                 Get(data, "numEmployees"), Get(data, "logoUrl") >>]

\* the second half of Company.create: the INSERT and the return
CompanyInsert(table, data) ==
  LET q == CompanyInsertQuery(data)
      result == ExecInsertCompany(table, q)
  IN IF result.failed
     THEN [ret |-> Throw("DatabaseError", "duplicate key value violates unique constraint"),
           table |-> result.table, query |-> q]
     ELSE [ret |-> Return(CHOOSE company \in result.rows : TRUE),
           table |-> result.table, query |-> q]

\* Company.create without the duplicate check
Company_create_NoDuplicateCheck(table, data) == CompanyInsert(table, data)

\* the first half of Company.create: the duplicate check SELECT and its rows
CompanyDuplicateCheck(table, data) ==
  LET check == [text |-> << "SELECT handle FROM companies WHERE handle = ", Placeholder(1) >>,
                values |-> << Get(data, "handle") >>]
  IN [rows |-> ExecSelectCompanyHandle(table, check), query |-> check]

\* throw new BadRequestError(`Duplicate company: ${handle}`)
CompanyDuplicate(data) ==
  Throw("BadRequestError", "Duplicate company: " \o ToStr(Get(data, "handle")))

\* Company.create({ handle, name, description, numEmployees, logoUrl })
Company_create(table, data) ==
  LET duplicateCheck == CompanyDuplicateCheck(table, data)
  IN IF duplicateCheck.rows # {}
     THEN [ret |-> CompanyDuplicate(data), table |-> table,
           query |-> duplicateCheck.query]
     ELSE CompanyInsert(table, data)

\* the companies created: one with the handle of c1, one with a new handle,
\* with and without the optional columns
NewCompanies ==
  { << Entry("handle", Str(h)), Entry("name", Str("New")),
       Entry("description", Str("New Description")),
       Entry("numEmployees", n), Entry("logoUrl", u) >> :
      h \in {"c1", "new"}, n \in {Num(1), Null}, u \in {Str("http://new.img"), Null} }

----------------------------------------------------------------------------
(* models/company.js: Company.update *)

\* UPDATE companies SET <"col"=$k, ...> WHERE handle = $m RETURNING ...
\* the table after the statement and the rows it returns
ExecUpdateCompanies(table, q) ==
  LET w == CHOOSE i \in 1..Len(q.text) : q.text[i] = " WHERE handle = "
      setCols == SubSeq(q.text, 2, w - 1)
      n == (Len(setCols) + 1) \div 5
      col(j) == setCols[5 * (j - 1) + 2]
      val(j) == q.values[PlaceholderIndex(setCols[5 * (j - 1) + 4], q.values)]
      key == q.values[PlaceholderIndex(q.text[w + 1], q.values)]
      hit == {h \in DOMAIN table : Str(h) = key}
      set(row) ==
        [c \in DOMAIN row |->
           IF \E j \in 1..n : col(j) = c
           THEN PgStore(c, val(CHOOSE j \in 1..n : col(j) = c))
           ELSE row[c]]
      after == [h \in DOMAIN table |->
                  IF h \in hit THEN set(table[h]) ELSE table[h]]
  IN [table |-> after,
      rows |-> {[handle |-> Str(h), name |-> after[h].name,
                 description |-> after[h].description,
                 numEmployees |-> after[h].num_employees,
                 logoUrl |-> after[h].logo_url] : h \in hit}]

\* the jsToSql table of Company.update
CompanyJsToSql ==
  << Entry("numEmployees", Str("num_employees")), Entry("logoUrl", Str("logo_url")) >>

\* CompanyUpdateQuery passing the handle first: `[handle, ...values]`
CompanyUpdateQuery_KeyFirst(handle, setCols, values) ==
  LET handleVarIdx == Placeholder(Len(values) + 1)
  IN [text |-> << "UPDATE companies SET " >> \o setCols
                 \o << " WHERE handle = ", handleVarIdx,
                       " RETURNING handle, name, description, num_employees AS \"numEmployees\", logo_url AS \"logoUrl\"" >>,
      values |-> << Str(handle) >> \o values]

\* the statement Company.update hands to db.query
CompanyUpdateQuery(handle, setCols, values) ==
  LET handleVarIdx == Placeholder(Len(values) + 1)
  IN [text |-> << "UPDATE companies SET " >> \o setCols
                 \o << " WHERE handle = ", handleVarIdx,
                       " RETURNING handle, name, description, num_employees AS \"numEmployees\", logo_url AS \"logoUrl\"" >>,
      values |-> values \o << Str(handle) >>]

\* Company.update looking the company up before it builds the SET clause
Company_update_LookupFirst(table, handle, data) ==
  LET built == sqlForPartialUpdate(data, CompanyJsToSql)
      lookup == [text |-> << "SELECT handle FROM companies WHERE handle = ", Placeholder(1) >>,
                 values |-> << Str(handle) >>]
      q == CompanyUpdateQuery(handle, built.value.setCols, built.value.values)
      result == ExecUpdateCompanies(table, q)
  IN IF handle \notin DOMAIN table
     THEN [ret |-> Throw("NotFoundError", "No company: " \o handle),
           table |-> table, query |-> lookup]
     ELSE IF built.threw
     THEN [ret |-> built, table |-> table, query |-> lookup]
     ELSE [ret |-> Return(CHOOSE company \in result.rows : TRUE),
           table |-> result.table, query |-> q]

\* Company.update(handle, data): the outcome, the table after it, the statement issued
Company_update(table, handle, data) ==
  LET built == sqlForPartialUpdate(data, CompanyJsToSql)
      q == CompanyUpdateQuery(handle, built.value.setCols, built.value.values)
      result == ExecUpdateCompanies(table, q)
  IN IF built.threw
     THEN [ret |-> built, table |-> table, query |-> NoQuery]
     ELSE IF result.rows = {}
     THEN [ret |-> Throw("NotFoundError", "No company: " \o handle),
           table |-> result.table, query |-> q]
     ELSE [ret |-> Return(CHOOSE company \in result.rows : TRUE),
           table |-> result.table, query |-> q]

\* handles the company model is called with: c1 exists, nope does not
CompanyHandles == {"c1", "nope"}

CompanyUpdateEntries ==
  {Entry("name", Str("New")), Entry("description", Str("New Description")),
   Entry("numEmployees", Num(10)), Entry("numEmployees", Null),
   Entry("logoUrl", Str("http://new.img")), Entry("logoUrl", Null)}
CompanyUpdateInputs == ObjectsOver(CompanyUpdateEntries, MaxFields)

----------------------------------------------------------------------------
(* The WHERE clause of the filter statements, as the store evaluates it *)

\* the characters of the strings in the tables and the search strings
BaseChars(s) ==
  CASE s = "j1" -> << "j", "1" >>
    [] s = "j2" -> << "j", "2" >>
    [] s = "j3" -> << "j", "3" >>
    [] s = "Net" -> << "N", "e", "t" >>
    [] s = "New" -> << "N", "e", "w" >>
    [] s = "C1" -> << "C", "1" >>
    [] s = "C2" -> << "C", "2" >>
    [] s = "C3" -> << "C", "3" >>
    [] s = "net" -> << "n", "e", "t" >>
    [] s = "c" -> << "c" >>
    [] s = "" -> << >>

\* the characters of a string, also of a search string between two %
Chars(s) ==
  IF \E l \in {"net", "c", ""} : s = "%" \o l \o "%"
  THEN LET l == CHOOSE x \in {"net", "c", ""} : s = "%" \o x \o "%"
       IN << "%" >> \o BaseChars(l) \o << "%" >>
  ELSE BaseChars(s)

\* lower(c)
LowerChar(c) ==
  CASE c = "N" -> "n"
    [] c = "C" -> "c"
    [] c = "J" -> "j"
    [] OTHER -> c

RECURSIVE LikeMatch(_, _)
\* text ILIKE pattern on characters: % stands for any run, _ for any one
\* character, every other character for itself in either case
LikeMatch(text, pattern) ==
  IF pattern = << >> THEN text = << >>
  ELSE IF Head(pattern) = "%"
  THEN LikeMatch(text, Tail(pattern))
         \/ (text # << >> /\ LikeMatch(Tail(text), pattern))
  ELSE /\ text # << >>
       /\ Head(pattern) = "_" \/ LowerChar(Head(text)) = LowerChar(Head(pattern))
       /\ LikeMatch(Tail(text), Tail(pattern))

\* equity > 0 on the NUMERIC column, which the tables hold as text
NumericPositive(v) == v # Null /\ v.s # "0"

\* one condition of a WHERE clause on a row; a comparison with NULL is not true
Condition(row, frag, values) ==
  LET bound == values[PlaceholderIndex(frag[2], values)]
  IN CASE frag = << "equity > 0" >> -> NumericPositive(row.equity)
       [] frag[1] = "title ILIKE " -> LikeMatch(Chars(row.title.s), Chars(bound.s))
       [] frag[1] = "name ILIKE " -> LikeMatch(Chars(row.name.s), Chars(bound.s))
       [] frag[1] = "salary >= " -> row.salary # Null /\ row.salary.n >= bound.n
       [] frag[1] = "num_employees >= " ->
            row.num_employees # Null /\ row.num_employees.n >= bound.n
       [] frag[1] = "num_employees <= " ->
            row.num_employees # Null /\ row.num_employees.n <= bound.n

\* the keys of the rows of a table that a WHERE clause keeps
ExecWhere(table, whereStatement, values) ==
  { key \in DOMAIN table :
      \A f \in 1..Len(SplitOn(whereStatement, " AND ")) :
        Condition(table[key], SplitOn(whereStatement, " AND ")[f], values) }

RECURSIVE Ascending(_)
\* a finite set of numbers as a list, smallest first (ORDER BY id)
Ascending(S) ==
  IF S = {} THEN << >>
  ELSE LET m == CHOOSE x \in S : \A y \in S : x <= y
       IN << m >> \o Ascending(S \ {m})

\* the lists that hold each element of S once (no ORDER BY)
AnyOrder(S) ==
  { l \in [1..Cardinality(S) -> S] : \A i, j \in 1..Cardinality(S) : l[i] = l[j] => i = j }

\* a job row as the SELECT lists it
JobRecord(table, id) ==
  [id |-> Num(id), title |-> table[id].title, salary |-> table[id].salary,
   equity |-> table[id].equity, companyHandle |-> table[id].company_handle]

\* a company row as the SELECT lists it
CompanyRecord(table, h) ==
  [handle |-> Str(h), name |-> table[h].name, description |-> table[h].description,
   numEmployees |-> table[h].num_employees, logoUrl |-> table[h].logo_url]

\* Job.filter whose statement has no WHERE clause
Job_filter_NoWhere(table, filterParams) ==
  LET filter == Job_sqlForFilter(filterParams)
      ids == Ascending(DOMAIN table)
  IN IF filter.threw THEN [ret |-> filter, query |-> NoQuery]
     ELSE [ret |-> Return([i \in 1..Len(ids) |-> JobRecord(table, ids[i])]),
           query |-> [text |-> << "SELECT id, title, salary, equity, company_handle AS \"companyHandle\" FROM jobs ORDER BY id" >>,
                      values |-> filter.value.values]]

\* Job.filter(filterParams): the outcome and the statement issued
Job_filter(table, filterParams) ==
  LET filter == Job_sqlForFilter(filterParams)
      q == [text |-> << "SELECT id, title, salary, equity, company_handle AS \"companyHandle\" FROM jobs WHERE " >>
                       \o filter.value.whereStatement \o << " ORDER BY id" >>,
            values |-> filter.value.values]
      ids == Ascending(ExecWhere(table, filter.value.whereStatement, filter.value.values))
  IN IF filter.threw THEN [ret |-> filter, query |-> NoQuery]
     ELSE [ret |-> Return([i \in 1..Len(ids) |-> JobRecord(table, ids[i])]), query |-> q]

\* Company.filter(filterParams): the outcomes (the statement has no ORDER BY,
\* so the rows come in any order) with the statement issued; an empty
\* whereStatement leaves `WHERE` with nothing after it, which the store rejects
Company_filter(table, filterParams) ==
  LET filter == Company_sqlForFilter(filterParams)
      q == [text |-> << "SELECT handle, name, description, num_employees AS \"numEmployees\", logo_url AS \"logoUrl\" FROM companies WHERE " >>
                       \o filter.value.whereStatement,
            values |-> filter.value.values]
      kept == ExecWhere(table, filter.value.whereStatement, filter.value.values)
  IN IF filter.threw THEN { [ret |-> filter, query |-> NoQuery] }
     ELSE IF filter.value.whereStatement = << >>
     THEN { [ret |-> Throw("DatabaseError", "syntax error at end of input"), query |-> q] }
     ELSE { [ret |-> Return([i \in 1..Len(hs) |-> CompanyRecord(table, hs[i])]), query |-> q] :
              hs \in AnyOrder(kept) }

----------------------------------------------------------------------------
(* models/job.js: Job.findAll *)

\* Job.findAll(): SELECT ... FROM jobs ORDER BY id
Job_findAll(table) ==
  LET ids == Ascending(DOMAIN table)
  IN [ret |-> Return([i \in 1..Len(ids) |-> JobRecord(table, ids[i])]),
      query |-> [text |-> << "SELECT id, title, salary, equity, company_handle AS \"companyHandle\" FROM jobs ORDER BY id" >>,
                 values |-> << >>]]

----------------------------------------------------------------------------
(* routes/jobs.js and what it requires *)

\* who sends a request: nobody logged in, a user who is no admin, an admin
Callers == {"anon", "user", "admin"}

\* middleware/auth: ensureAdmin lets an admin through, and answers anybody
\* else with UnauthorizedError
ensureAdmin(caller) ==
  IF caller = "admin" THEN Return(Undefined) ELSE Throw("UnauthorizedError", "Unauthorized")

\* expressError: the status of each error class; any other error is a 500
StatusOf(err) ==
  CASE err = "BadRequestError" -> 400
    [] err = "UnauthorizedError" -> 401
    [] err = "NotFoundError" -> 404
    [] OTHER -> 500

\* the answer to a request whose handler threw
ErrorResponse(thrown) ==
  [status |-> StatusOf(thrown.err),
   body |-> [error |-> [message |-> thrown.message, status |-> StatusOf(thrown.err)]]]

\* res.status(status).json(body)
Response(status, body) == [status |-> status, body |-> body]

\* every key of o is one of allowed
OnlyKeys(o, allowed) == \A i \in 1..Len(o) : o[i].k \in allowed

\* key is absent from o or has a value of one of the types
TypeIfPresent(o, key, types) == In(key, o) => Get(o, key).t \in types

\* schemas/jobNew.json: title and companyHandle required, no other keys
\* than the four, salary and equity numbers
jobNewSchemaValid(body) ==
  /\ OnlyKeys(body, {"title", "salary", "equity", "companyHandle"})
  /\ In("title", body) /\ In("companyHandle", body)
  /\ TypeIfPresent(body, "title", {"string"})
  /\ TypeIfPresent(body, "companyHandle", {"string"})
  /\ TypeIfPresent(body, "salary", {"number"})
  /\ TypeIfPresent(body, "equity", {"number"})

\* schemas/jobUpdate.json: no keys other than title, salary, equity
jobUpdateSchemaValid(body) ==
  /\ OnlyKeys(body, {"title", "salary", "equity"})
  /\ TypeIfPresent(body, "title", {"string"})
  /\ TypeIfPresent(body, "salary", {"number"})
  /\ TypeIfPresent(body, "equity", {"number"})

\* schemas/jobFilter.json: no keys other than titleLike, minSalary, hasEquity
jobFilterSchemaValid(searchData) ==
  /\ OnlyKeys(searchData, {"titleLike", "minSalary", "hasEquity"})
  /\ TypeIfPresent(searchData, "titleLike", {"string"})
  /\ TypeIfPresent(searchData, "minSalary", {"number"})
  /\ TypeIfPresent(searchData, "hasEquity", {"boolean"})

\* the validation failure a handler throws
SchemaError == Throw("BadRequestError", "instance does not match the schema")

\* NaN
NaN == [t |-> "NaN", n |-> 0, s |-> ""]

\* Number(s) of a query string value
NumberOf(v) ==
  CASE v.s = "0" -> Num(0)
    [] v.s = "1" -> Num(1)
    [] v.s = "2" -> Num(2)
    [] v.s = "3" -> Num(3)
    [] OTHER -> NaN

\* s.toLowerCase() of a query string value
toLowerCase(v) ==
  CASE v.s = "TRUE" -> Str("true")
    [] v.s = "True" -> Str("true")
    [] v.s = "FALSE" -> Str("false")
    [] OTHER -> v

\* ConvertQuery comparing hasEquity with "true" as it is written
ConvertQuery_CaseSensitive(reqQuery) ==
  [i \in 1..Len(reqQuery) |->
     CASE reqQuery[i].k = "minSalary" -> Entry("minSalary", NumberOf(reqQuery[i].v))
       [] reqQuery[i].k = "hasEquity" ->
            Entry("hasEquity", Bool(reqQuery[i].v = Str("true")))
       [] OTHER -> reqQuery[i]]

\* searchData after the two conversions, the keys where they were
ConvertQuery(reqQuery) ==
  [i \in 1..Len(reqQuery) |->
     CASE reqQuery[i].k = "minSalary" -> Entry("minSalary", NumberOf(reqQuery[i].v))
       [] reqQuery[i].k = "hasEquity" ->
            Entry("hasEquity", Bool(toLowerCase(reqQuery[i].v) = Str("true")))
       [] OTHER -> reqQuery[i]]

\* a call of a model method or builder made by a handler, with its outcome
Invocation(f, a, r) == [op |-> f, arg |-> a, ret |-> r]

\* router.post("/"): the response, the table and the sequence after it,
\* the statement issued and the model calls made
router_post(caller, body, table, id) ==
  LET auth == ensureAdmin(caller)
      created == Job_create(table, id, body)
  IN IF auth.threw
     THEN [ret |-> ErrorResponse(auth), table |-> table, nextId |-> id, query |-> NoQuery,
           invoked |-> << >>]
     ELSE IF ~jobNewSchemaValid(body)
     THEN [ret |-> ErrorResponse(SchemaError), table |-> table, nextId |-> id,
           query |-> NoQuery, invoked |-> << >>]
     ELSE [ret |-> Response(201, [job |-> created.ret.value]), table |-> created.table,
           nextId |-> id + 1, query |-> created.query,
           invoked |-> << Invocation("Job.create", [data |-> body], created.ret) >>]

\* router.get("/") without the `if (!jobs[0])` answer
router_get_EmptyList(reqQuery, table) ==
  LET all == Job_findAll(table)
      searchData == ConvertQuery(reqQuery)
      found == Job_filter(table, searchData)
      filterCalls ==
        << Invocation("Job._sqlForFilter", [filterParams |-> searchData],
                      Job_sqlForFilter(searchData)),
           Invocation("Job.filter", [filterParams |-> searchData], found.ret) >>
  IN IF Len(ObjectKeys(reqQuery)) = 0
     THEN [ret |-> Response(200, [jobs |-> all.ret.value]), query |-> all.query,
           invoked |-> << Invocation("Job.findAll", << >>, all.ret) >>]
     ELSE IF ~jobFilterSchemaValid(searchData)
     THEN [ret |-> ErrorResponse(SchemaError), query |-> NoQuery, invoked |-> << >>]
     ELSE IF found.ret.threw
     THEN [ret |-> ErrorResponse(found.ret), query |-> found.query,
           invoked |-> filterCalls]
     ELSE [ret |-> Response(200, [jobs |-> found.ret.value]), query |-> found.query,
           invoked |-> filterCalls]

\* router.get("/") without the test for an empty query string
router_get_AlwaysFilter(reqQuery, table) ==
  LET searchData == ConvertQuery(reqQuery)
      found == Job_filter(table, searchData)
      filterCalls ==
        << Invocation("Job._sqlForFilter", [filterParams |-> searchData],
                      Job_sqlForFilter(searchData)),
           Invocation("Job.filter", [filterParams |-> searchData], found.ret) >>
  IN IF ~jobFilterSchemaValid(searchData)
     THEN [ret |-> ErrorResponse(SchemaError), query |-> NoQuery, invoked |-> << >>]
     ELSE IF found.ret.threw
     THEN [ret |-> ErrorResponse(found.ret), query |-> found.query,
           invoked |-> filterCalls]
     ELSE IF Len(found.ret.value) = 0
     THEN [ret |-> Response(200, [message |-> "No jobs found"]), query |-> found.query,
           invoked |-> filterCalls]
     ELSE [ret |-> Response(200, [jobs |-> found.ret.value]), query |-> found.query,
           invoked |-> filterCalls]

\* router.get("/"): the response, the statement issued and the model calls
\* made (Job.filter calls Job._sqlForFilter first)
router_get(reqQuery, table) ==
  LET all == Job_findAll(table)
      searchData == ConvertQuery(reqQuery)
      found == Job_filter(table, searchData)
      filterCalls ==
        << Invocation("Job._sqlForFilter", [filterParams |-> searchData],
                      Job_sqlForFilter(searchData)),
           Invocation("Job.filter", [filterParams |-> searchData], found.ret) >>
  IN IF Len(ObjectKeys(reqQuery)) = 0
     THEN [ret |-> Response(200, [jobs |-> all.ret.value]), query |-> all.query,
           invoked |-> << Invocation("Job.findAll", << >>, all.ret) >>]
     ELSE IF ~jobFilterSchemaValid(searchData)
     THEN [ret |-> ErrorResponse(SchemaError), query |-> NoQuery, invoked |-> << >>]
     ELSE IF found.ret.threw
     THEN [ret |-> ErrorResponse(found.ret), query |-> found.query,
           invoked |-> filterCalls]
     ELSE IF Len(found.ret.value) = 0
     THEN [ret |-> Response(200, [message |-> "No jobs found"]), query |-> found.query,
           invoked |-> filterCalls]
     ELSE [ret |-> Response(200, [jobs |-> found.ret.value]), query |-> found.query,
           invoked |-> filterCalls]

\* router.get("/:id"): the response, the statement issued, the model calls made
router_getId(id, jobsTable, companiesTable) ==
  LET got == Job_get(jobsTable, companiesTable, id)
      call == << Invocation("Job.get", [id |-> id], got.ret) >>
  IN IF got.ret.threw
     THEN [ret |-> ErrorResponse(got.ret), query |-> got.query, invoked |-> call]
     ELSE [ret |-> Response(200, [job |-> got.ret.value]), query |-> got.query,
           invoked |-> call]

\* the handler of router.patch("/:id") without the schema validation
patchHandler_NoValidation(id, body, table) ==
  LET updated == Job_update(table, id, body)
      call == << Invocation("Job.update", [id |-> id, data |-> body], updated.ret) >>
  IN IF updated.ret.threw
     THEN [ret |-> ErrorResponse(updated.ret), table |-> updated.table,
           query |-> updated.query, invoked |-> call]
     ELSE [ret |-> Response(200, [job |-> updated.ret.value]), table |-> updated.table,
           query |-> updated.query, invoked |-> call]

\* the handler of router.patch("/:id"), behind ensureAdmin
patchHandler(id, body, table) ==
  LET updated == Job_update(table, id, body)
      call == << Invocation("Job.update", [id |-> id, data |-> body], updated.ret) >>
  IN IF ~jobUpdateSchemaValid(body)
     THEN [ret |-> ErrorResponse(SchemaError), table |-> table, query |-> NoQuery,
           invoked |-> << >>]
     ELSE IF updated.ret.threw
     THEN [ret |-> ErrorResponse(updated.ret), table |-> updated.table,
           query |-> updated.query, invoked |-> call]
     ELSE [ret |-> Response(200, [job |-> updated.ret.value]), table |-> updated.table,
           query |-> updated.query, invoked |-> call]

\* router.patch("/:id") without ensureAdmin in front of the handler
router_patch_NoEnsureAdmin(caller, id, body, table) == patchHandler(id, body, table)

\* router.patch("/:id"): the response, the table after it, the statement
\* issued, the model calls made
router_patch(caller, id, body, table) ==
  LET auth == ensureAdmin(caller)
  IN IF auth.threw
     THEN [ret |-> ErrorResponse(auth), table |-> table, query |-> NoQuery,
           invoked |-> << >>]
     ELSE patchHandler(id, body, table)

\* router.delete("/:id"): the response, the table after it, the statement
\* issued, the model calls made
router_delete(caller, id, table) ==
  LET auth == ensureAdmin(caller)
      removed == Job_remove(table, id)
      call == << Invocation("Job.remove", [id |-> id], removed.ret) >>
  IN IF auth.threw
     THEN [ret |-> ErrorResponse(auth), table |-> table, query |-> NoQuery,
           invoked |-> << >>]
     ELSE IF removed.ret.threw
     THEN [ret |-> ErrorResponse(removed.ret), table |-> removed.table,
           query |-> removed.query, invoked |-> call]
     ELSE [ret |-> Response(200, [deleted |-> ToString(id)]), table |-> removed.table,
           query |-> removed.query, invoked |-> call]

\* the bodies sent to POST /jobs: the new job, one with data missing, one
\* with a salary that is no number
PostBodies ==
  { NewJob, << Entry("salary", Num(10)) >>,
    << Entry("title", Str("j3")), Entry("salary", Str("not-a-number")),
       Entry("companyHandle", Str("c3")) >> }

\* the bodies sent to PATCH /jobs/:id
PatchBodies ==
  { << Entry("title", Str("j1-new")) >>, << Entry("id", Num(0)) >>,
    << Entry("salary", Str("not-a-number")) >>, << >> }

\* the query strings of GET /jobs
QueryEntries ==
  { Entry("titleLike", Str("net")), Entry("minSalary", Str("2")),
    Entry("minSalary", Str("abc")), Entry("hasEquity", Str("true")),
    Entry("hasEquity", Str("TRUE")), Entry("hasEquity", Str("false")),
    Entry("hasEquity", Str("yes")),
    Entry("name", Str("net")) }
Queries == ObjectsOver(QueryEntries, MaxQueryKeys)

\* the requests made
Requests ==
  { [op |-> "POST /jobs", arg |-> [caller |-> c, body |-> b]] :
      c \in Callers, b \in PostBodies }
  \cup
  { [op |-> "GET /jobs", arg |-> [caller |-> c, query |-> q]] :
      c \in Callers, q \in Queries }
  \cup
  { [op |-> "GET /jobs/:id", arg |-> [caller |-> c, id |-> id]] :
      c \in Callers, id \in JobIds }
  \cup
  { [op |-> "PATCH /jobs/:id", arg |-> [caller |-> c, id |-> id, body |-> b]] :
      c \in Callers, id \in JobIds, b \in PatchBodies }
  \cup
  { [op |-> "DELETE /jobs/:id", arg |-> [caller |-> c, id |-> id]] :
      c \in Callers, id \in JobIds }

----------------------------------------------------------------------------
(* The builders called one after another *)

\* the calls made: each builder with an input it returns on, one it throws
\* on (sqlForPartialUpdate, Company._sqlForFilter) and a second input
BuilderCalls ==
  { [op |-> "sqlForPartialUpdate",
     arg |-> [dataToUpdate |-> d, jsToSql |-> << Entry("firstName", Str("first_name")) >>]] :
       d \in { << >>, << Entry("firstName", Str("Aliya")), Entry("age", Num(32)) >> } }
  \cup
  { [op |-> "Company._sqlForFilter", arg |-> [filterParams |-> f]] :
       f \in { << Entry("nameLike", Str("net")), Entry("minEmployees", Num(1)) >>,
               << Entry("minEmployees", Num(2)), Entry("maxEmployees", Num(1)) >> } }
  \cup
  { [op |-> "Job._sqlForFilter", arg |-> [filterParams |-> f]] :
       f \in { << Entry("titleLike", Str("net")), Entry("minSalary", Num(1)) >>,
               << Entry("minSalary", Num(2)), Entry("hasEquity", Bool(TRUE)) >> } }

\* the next call is made, once the one before has come back
CallBuilder ==
  /\ op = "none" \/ ret # Pending
  /\ Len(log) < MaxBuilderCalls
  /\ \E c \in BuilderCalls :
       /\ op' = c.op
       /\ arg' = c.arg
  /\ ret' = Pending
  /\ UNCHANGED <<jobs, query, calls, companies, nextId, log, pc>>

NextCalls ==
  CallBuilder \/ RunSqlForPartialUpdate \/ RunCompanySqlForFilter \/ RunJobSqlForFilter

----------------------------------------------------------------------------
(* The job model as a state machine over the jobs table *)

Init ==
  /\ jobs = InitJobs
  /\ query = NoQuery
  /\ calls = 0
  /\ companies = InitCompanies
  /\ nextId = InitNextId
  /\ log = << >>
  /\ pc = << >>
  /\ op = "none"
  /\ arg = << >>
  /\ ret = Pending

JobUpdate ==
  /\ calls < MaxCalls
  /\ \E id \in JobIds, data \in JobUpdateInputs :
    LET r == Job_update(jobs, id, data)
    IN /\ calls' = calls + 1
       /\ op' = "Job.update"
       /\ arg' = [id |-> id, data |-> data, before |-> jobs]
       /\ ret' = r.ret
       /\ jobs' = r.table
       /\ query' = r.query
       /\ UNCHANGED <<companies, nextId, log, pc>>

Next == JobUpdate

Spec == Init /\ [][Next]_vars

SpecCalls == Init /\ [][NextCalls]_vars

----------------------------------------------------------------------------
(* One call of a model method against the test database *)

\* the calls of the model methods
ModelCalls ==
  { [op |-> "Job.update", arg |-> [id |-> id, data |-> data]] :
      id \in JobIds, data \in JobUpdateInputs }
  \cup
  { [op |-> "Company.update", arg |-> [handle |-> handle, data |-> data]] :
      handle \in CompanyHandles, data \in CompanyUpdateInputs }
  \cup
  { [op |-> f, arg |-> [id |-> id]] : f \in {"Job.get", "Job.remove"}, id \in JobIds }
  \cup
  { [op |-> "Job.create", arg |-> [data |-> NewJob]] }
  \cup
  { [op |-> "Company.create", arg |-> [data |-> data]] : data \in NewCompanies }

InitModel ==
  /\ jobs = InitJobs
  /\ companies = InitCompanies
  /\ nextId = InitNextId
  /\ query = NoQuery
  /\ calls = 0
  /\ log = << >>
  /\ pc = << >>
  /\ ret = Pending
  /\ \E c \in ModelCalls : op = c.op /\ arg = c.arg

RunJobUpdate ==
  /\ op = "Job.update"
  /\ ret = Pending
  /\ LET r == Job_update(jobs, arg.id, arg.data)
     IN /\ ret' = r.ret
        /\ jobs' = r.table
        /\ query' = r.query
  /\ log' = Append(log, [op |-> op, arg |-> arg, ret |-> ret'])
  /\ UNCHANGED <<op, arg, calls, companies, nextId, pc>>

RunCompanyUpdate ==
  /\ op = "Company.update"
  /\ ret = Pending
  /\ LET r == Company_update(companies, arg.handle, arg.data)
     IN /\ ret' = r.ret
        /\ companies' = r.table
        /\ query' = r.query
  /\ log' = Append(log, [op |-> op, arg |-> arg, ret |-> ret'])
  /\ UNCHANGED <<op, arg, calls, jobs, nextId, pc>>

RunJobGet ==
  /\ op = "Job.get"
  /\ ret = Pending
  /\ LET r == Job_get(jobs, companies, arg.id)
     IN /\ ret' = r.ret
        /\ query' = r.query
  /\ log' = Append(log, [op |-> op, arg |-> arg, ret |-> ret'])
  /\ UNCHANGED <<op, arg, calls, jobs, companies, nextId, pc>>

RunJobRemove ==
  /\ op = "Job.remove"
  /\ ret = Pending
  /\ LET r == Job_remove(jobs, arg.id)
     IN /\ ret' = r.ret
        /\ jobs' = r.table
        /\ query' = r.query
  /\ log' = Append(log, [op |-> op, arg |-> arg, ret |-> ret'])
  /\ UNCHANGED <<op, arg, calls, companies, nextId, pc>>

RunJobCreate ==
  /\ op = "Job.create"
  /\ ret = Pending
  /\ LET r == Job_create(jobs, nextId, arg.data)
     IN /\ ret' = r.ret
        /\ jobs' = r.table
        /\ query' = r.query
  /\ nextId' = nextId + 1
  /\ log' = Append(log, [op |-> op, arg |-> arg, ret |-> ret'])
  /\ UNCHANGED <<op, arg, calls, companies, pc>>

RunCompanyCreate ==
  /\ op = "Company.create"
  /\ ret = Pending
  /\ LET r == Company_create(companies, arg.data)
     IN /\ ret' = r.ret
        /\ companies' = r.table
        /\ query' = r.query
  /\ log' = Append(log, [op |-> op, arg |-> arg, ret |-> ret'])
  /\ UNCHANGED <<op, arg, calls, jobs, nextId, pc>>

NextModel ==
  \/ RunJobUpdate \/ RunCompanyUpdate \/ RunJobGet \/ RunJobRemove \/ RunJobCreate
  \/ RunCompanyCreate

SpecModel == InitModel /\ [][NextModel]_vars

----------------------------------------------------------------------------
(* Two calls of Company.create in flight at once: each call runs its       *)
(* duplicate check, awaits it, and then runs its INSERT; the calls of      *)
(* other requests run between the two awaited statements.                  *)

\* the calls in flight
Procs == {1, 2}

\* both calls start before either has run a statement
InitCreate ==
  /\ op = "Company.create"
  /\ arg \in [Procs -> [data : NewCompanies]]
  /\ ret = [p \in Procs |-> Pending]
  /\ pc = [p \in Procs |-> "check"]
  /\ jobs = InitJobs
  /\ companies = InitCompanies
  /\ nextId = InitNextId
  /\ query = NoQuery
  /\ calls = 0
  /\ log = << >>

\* const duplicateCheck = await db.query(SELECT ...);
\* if (duplicateCheck.rows[0]) throw new BadRequestError(...)
CreateCheck(p) ==
  /\ pc[p] = "check"
  /\ LET duplicateCheck == CompanyDuplicateCheck(companies, arg[p].data)
     IN /\ query' = duplicateCheck.query
        /\ IF duplicateCheck.rows # {}
           THEN /\ ret' = [ret EXCEPT ![p] = CompanyDuplicate(arg[p].data)]
                /\ pc' = [pc EXCEPT ![p] = "done"]
                /\ log' = Append(log, [op |-> op, arg |-> arg[p], ret |-> ret'[p]])
           ELSE /\ pc' = [pc EXCEPT ![p] = "insert"]
                /\ UNCHANGED <<ret, log>>
  /\ UNCHANGED <<op, arg, calls, jobs, companies, nextId>>

\* const result = await db.query(INSERT ...); return result.rows[0]
CreateInsert(p) ==
  /\ pc[p] = "insert"
  /\ LET r == CompanyInsert(companies, arg[p].data)
     IN /\ ret' = [ret EXCEPT ![p] = r.ret]
        /\ companies' = r.table
        /\ query' = r.query
  /\ pc' = [pc EXCEPT ![p] = "done"]
  /\ log' = Append(log, [op |-> op, arg |-> arg[p], ret |-> ret'[p]])
  /\ UNCHANGED <<op, arg, calls, jobs, nextId>>

NextCreate == \E p \in Procs : CreateCheck(p) \/ CreateInsert(p)

SpecCreate == InitCreate /\ [][NextCreate]_vars

----------------------------------------------------------------------------
(* The job model called several times in a row *)

\* the calls made: every method on the ids of j1, j2 and of no job,
\* Job.update with {} and with a title
JobCalls ==
  { [op |-> f, arg |-> [id |-> id]] : f \in {"Job.get", "Job.remove"}, id \in 0..2 }
  \cup
  { [op |-> "Job.update", arg |-> [id |-> id, data |-> data]] :
      id \in 0..2, data \in { << >>, << Entry("title", Str("New")) >> } }
  \cup
  { [op |-> "Job.create", arg |-> [data |-> NewJob]] }

\* the next call is made, once the one before has come back
CallJob ==
  /\ op = "none" \/ ret # Pending
  /\ Len(log) < MaxJobCalls
  /\ \E c \in JobCalls :
       /\ op' = c.op
       /\ arg' = c.arg
  /\ ret' = Pending
  /\ UNCHANGED <<jobs, query, calls, companies, nextId, log, pc>>

NextJobs == CallJob \/ RunJobGet \/ RunJobUpdate \/ RunJobRemove \/ RunJobCreate

SpecJobs == Init /\ [][NextJobs]_vars

----------------------------------------------------------------------------
(* One call of a filter method against tables the other methods leave *)

\* the jobs after Job.update(1, ..) gave j1 a title, a salary, an equity
FilterJobTables ==
  { (1 :> [title |-> Str(t), salary |-> s, equity |-> e, company_handle |-> Str("c1")])
      @@ (2 :> InitJobs[2]) :
      t \in {"j1", "Net"}, s \in {Num(1), Null}, e \in {Str("0.1"), Str("0"), Null} }

\* the companies after Company.update("c1", ..) gave c1 a name, a size
FilterCompanyTables ==
  { [InitCompanies EXCEPT !["c1"].name = Str(n), !["c1"].num_employees = e] :
      n \in {"C1", "Net"}, e \in {Num(1), Null} }

InitFilter ==
  /\ nextId = InitNextId
  /\ query = NoQuery
  /\ calls = 0
  /\ log = << >>
  /\ pc = << >>
  /\ ret = Pending
  /\ \/ /\ op = "Job.filter"
        /\ arg \in [filterParams : JobFilterInputs]
        /\ jobs \in FilterJobTables
        /\ companies = InitCompanies
     \/ /\ op = "Company.filter"
        /\ arg \in [filterParams : CompanyFilterInputs]
        /\ jobs = InitJobs
        /\ companies \in FilterCompanyTables

RunJobFilter ==
  /\ op = "Job.filter"
  /\ ret = Pending
  /\ LET r == Job_filter(jobs, arg.filterParams)
     IN /\ ret' = r.ret
        /\ query' = r.query
  /\ log' = Append(log, [op |-> op, arg |-> arg, ret |-> ret'])
  /\ UNCHANGED <<op, arg, calls, jobs, companies, nextId, pc>>

RunCompanyFilter ==
  /\ op = "Company.filter"
  /\ ret = Pending
  /\ \E r \in Company_filter(companies, arg.filterParams) :
       /\ ret' = r.ret
       /\ query' = r.query
  /\ log' = Append(log, [op |-> op, arg |-> arg, ret |-> ret'])
  /\ UNCHANGED <<op, arg, calls, jobs, companies, nextId, pc>>

NextFilter == RunJobFilter \/ RunCompanyFilter

SpecFilter == InitFilter /\ [][NextFilter]_vars

----------------------------------------------------------------------------
(* One request to the job routes *)

InitRoutes ==
  /\ jobs = InitJobs
  /\ companies = InitCompanies
  /\ nextId = InitNextId
  /\ query = NoQuery
  /\ calls = 0
  /\ log = << >>
  /\ pc = << >>
  /\ ret = Pending
  /\ \E r \in Requests : op = r.op /\ arg = r.arg

PostJobs ==
  /\ op = "POST /jobs"
  /\ ret = Pending
  /\ LET r == router_post(arg.caller, arg.body, jobs, nextId)
     IN /\ ret' = r.ret
        /\ jobs' = r.table
        /\ nextId' = r.nextId
        /\ query' = r.query
        /\ log' = log \o r.invoked \o << Invocation(op, arg, r.ret) >>
  /\ UNCHANGED <<op, arg, calls, companies, pc>>

GetJobs ==
  /\ op = "GET /jobs"
  /\ ret = Pending
  /\ LET r == router_get(arg.query, jobs)
     IN /\ ret' = r.ret
        /\ query' = r.query
        /\ log' = log \o r.invoked \o << Invocation(op, arg, r.ret) >>
  /\ UNCHANGED <<op, arg, calls, jobs, companies, nextId, pc>>

GetJobById ==
  /\ op = "GET /jobs/:id"
  /\ ret = Pending
  /\ LET r == router_getId(arg.id, jobs, companies)
     IN /\ ret' = r.ret
        /\ query' = r.query
        /\ log' = log \o r.invoked \o << Invocation(op, arg, r.ret) >>
  /\ UNCHANGED <<op, arg, calls, jobs, companies, nextId, pc>>

PatchJobById ==
  /\ op = "PATCH /jobs/:id"
  /\ ret = Pending
  /\ LET r == router_patch(arg.caller, arg.id, arg.body, jobs)
     IN /\ ret' = r.ret
        /\ jobs' = r.table
        /\ query' = r.query
        /\ log' = log \o r.invoked \o << Invocation(op, arg, r.ret) >>
  /\ UNCHANGED <<op, arg, calls, companies, nextId, pc>>

DeleteJobById ==
  /\ op = "DELETE /jobs/:id"
  /\ ret = Pending
  /\ LET r == router_delete(arg.caller, arg.id, jobs)
     IN /\ ret' = r.ret
        /\ jobs' = r.table
        /\ query' = r.query
        /\ log' = log \o r.invoked \o << Invocation(op, arg, r.ret) >>
  /\ UNCHANGED <<op, arg, calls, companies, nextId, pc>>

NextRoutes == PostJobs \/ GetJobs \/ GetJobById \/ PatchJobById \/ DeleteJobById

SpecRoutes == InitRoutes /\ [][NextRoutes]_vars

----------------------------------------------------------------------------
(* Reading a generated clause *)

\* the tokens that are placeholders
PlaceholderTokens == {Placeholder(k) : k \in 1..(MaxFields + 2)}
IsPlaceholder(tok) == tok \in PlaceholderTokens

\* the placeholders of a text, in the order they occur
PlaceholdersOf(text) == SelectSeq(text, IsPlaceholder)

\* <<$1, .., $n>>
Numbered(n) == [k \in 1..n |-> Placeholder(k)]

\* the object without key k
Without(o, k) == LET Keep(e) == e.k # k IN SelectSeq(o, Keep)

\* the object with its entries reordered by the permutation p of 1..Len(o)
Reordered(o, p) == [i \in 1..Len(o) |-> o[p[i]]]

\* a call of f has run
Ran(f) == op = f /\ ret # Pending

----------------------------------------------------------------------------
(* helpers/sql.js: properties *)

RECURSIVE ExpectedSetCols(_, _, _)
\* "<col>"=$<i>, ... as one string, for the entries i.. of data: col is
\* jsToSql[key] when jsToSql has the key, the key otherwise
ExpectedSetCols(data, jsToSql, i) ==
  LET key == data[i].k
      col == IF In(key, jsToSql) THEN Get(jsToSql, key).s ELSE key
      frag == "\"" \o col \o "\"=$" \o ToString(i)
  IN IF i = Len(data) THEN frag
     ELSE frag \o ", " \o ExpectedSetCols(data, jsToSql, i + 1)

\* C1: for a non-empty dataToUpdate with n entries and any jsToSql,
\* sqlForPartialUpdate returns setCols with exactly n placeholders, $1..$n,
\* the i-th fragment carrying $i, and n values.
C1_PlaceholdersNumbered ==
  (Ran("sqlForPartialUpdate") /\ Len(arg.dataToUpdate) > 0) =>
    LET n == Len(arg.dataToUpdate)
        frags == SplitOn(ret.value.setCols, ", ")
    IN /\ ~ret.threw
       /\ PlaceholdersOf(ret.value.setCols) = Numbered(n)
       /\ Len(frags) = n
       /\ \A i \in 1..n : PlaceholdersOf(frags[i]) = << Placeholder(i) >>
       /\ Len(ret.value.values) = n

C1_Witness ==
  /\ Ran("sqlForPartialUpdate")
  /\ Len(arg.dataToUpdate) = 3
  /\ Len(arg.jsToSql) = 2
  /\ ~ret.threw
  /\ PlaceholdersOf(ret.value.setCols) = << "$1", "$2", "$3" >>

\* C2: sqlForPartialUpdate with a dataToUpdate of zero entries throws
\* BadRequestError whatever jsToSql is, and returns no clause.
C2_EmptyUpdateThrows ==
  (Ran("sqlForPartialUpdate") /\ Len(arg.dataToUpdate) = 0) =>
    /\ ret.threw
    /\ ret.err = "BadRequestError"
    /\ "value" \notin DOMAIN ret

C2_Witness ==
  /\ Ran("sqlForPartialUpdate")
  /\ arg.dataToUpdate = << >>
  /\ arg.jsToSql = << Entry("firstName", Str("first_name")) >>
  /\ ret.threw

C4_ValuesPassThrough ==
  (op = "Job.update" /\ Len(arg.data) > 0) =>
    LET n == Len(arg.data)
    IN /\ query.values = [i \in 1..n |-> arg.data[i].v] \o << Num(arg.id) >>
       /\ \A i \in 1..n :
            /\ SplitOn(SubSeq(query.text, 2, 5 * n), ", ")[i]
                 = << "\"", arg.data[i].k, "\"=", Placeholder(i) >>
            /\ (arg.data[i].v = Null /\ ~ret.threw) =>
                 /\ ret.value[arg.data[i].k] = Null
                 /\ jobs[arg.id][arg.data[i].k] = Null

C4_Witness ==
  /\ op = "Job.update"
  /\ arg.id = 1
  /\ arg.data = << Entry("title", Str("New")), Entry("salary", Null),
                   Entry("equity", Null) >>
  /\ ~ret.threw
  /\ ret.value = [id |-> Num(1), title |-> Str("New"), salary |-> Null,
                  equity |-> Null, companyHandle |-> Str("c1")]
  /\ query.values = << Str("New"), Null, Null, Num(1) >>

----------------------------------------------------------------------------
(* Company._sqlForFilter and Job._sqlForFilter: properties *)

\* C5: Company._sqlForFilter throws BadRequestError whenever minEmployees and
\* maxEmployees are both present and minEmployees > maxEmployees, for all
\* values of the two bounds, 0 included.
C5_RangeAlwaysChecked ==
  ( /\ Ran("Company._sqlForFilter")
    /\ In("minEmployees", arg.filterParams)
    /\ In("maxEmployees", arg.filterParams)
    /\ Get(arg.filterParams, "minEmployees").n
         > Get(arg.filterParams, "maxEmployees").n ) =>
    (ret.threw /\ ret.err = "BadRequestError")

\* the walk over filterParams emits no fragment
NoCriteria(filterParams) ==
  \A i \in 1..Len(filterParams) :
    filterParams[i].k = "hasEquity" /\ filterParams[i].v # Bool(TRUE)

\* C6: both filter builders throw whenever zero fragments would be emitted,
\* an empty filterParams included, and never return an empty WHERE text.
C6_NoEmptyWhere ==
  (Ran("Company._sqlForFilter") \/ Ran("Job._sqlForFilter")) =>
    /\ NoCriteria(arg.filterParams) => ret.threw
    /\ ~ret.threw => ret.value.whereStatement # << >>

\* C7: Job._sqlForFilter adds no fragment for hasEquity when it is false or
\* absent: alone, {hasEquity: false} throws BadRequestError; with other keys
\* the result is the result for the input without hasEquity.
C7_HasEquityFalseIgnored ==
  ( /\ Ran("Job._sqlForFilter")
    /\ Get(arg.filterParams, "hasEquity") \in {Bool(FALSE), Undefined} ) =>
    LET rest == Without(arg.filterParams, "hasEquity")
    IN /\ rest = << >> => (ret.threw /\ ret.err = "BadRequestError")
       /\ rest # << >> =>
            /\ ~ret.threw
            /\ ret = Job_sqlForFilter(rest)
            /\ \A i \in 1..Len(ret.value.whereStatement) :
                 ret.value.whereStatement[i] # "equity > 0"
            /\ Len(SplitOn(ret.value.whereStatement, " AND ")) = Len(rest)

C7_Witness ==
  /\ Ran("Job._sqlForFilter")
  /\ arg.filterParams = << Entry("hasEquity", Bool(FALSE)) >>
  /\ ret.threw
  /\ ret.err = "BadRequestError"

\* C8: with hasEquity true Job._sqlForFilter emits the literal equity > 0,
\* no placeholder and no value: values and placeholders are those of the
\* input without hasEquity, and the text is that clause followed by the
\* equity fragment.
C8_HasEquityLiteral ==
  ( /\ Ran("Job._sqlForFilter")
    /\ Get(arg.filterParams, "hasEquity") = Bool(TRUE) ) =>
    LET rest == Without(arg.filterParams, "hasEquity")
        without == Job_sqlForFilter(rest)
    IN /\ ~ret.threw
       /\ Len(ret.value.values) = Len(rest)
       /\ PlaceholdersOf(ret.value.whereStatement) = Numbered(Len(rest))
       /\ IF rest = << >>
          THEN ret.value = [whereStatement |-> << "equity > 0" >>, values |-> << >>]
          ELSE /\ ret.value.values = without.value.values
               /\ ret.value.whereStatement
                    = without.value.whereStatement \o << " AND ", "equity > 0" >>

C8_Witness ==
  /\ Ran("Job._sqlForFilter")
  /\ arg.filterParams = << Entry("titleLike", Str("c")), Entry("minSalary", Num(2)),
                           Entry("hasEquity", Bool(TRUE)) >>
  /\ ~ret.threw
  /\ Render(ret.value.whereStatement) = "title ILIKE $1 AND salary >= $2 AND equity > 0"
  /\ ret.value.values = << Str("%c%"), Num(2) >>

\* the clause has a fragment <column> ILIKE $n whose value, values[n], is %v%
LikeEmitted(clause, column, v) ==
  \E n \in 1..Len(clause.values) :
    /\ \E f \in 1..Len(SplitOn(clause.whereStatement, " AND ")) :
         SplitOn(clause.whereStatement, " AND ")[f]
           = << column \o " ILIKE ", Placeholder(n) >>
    /\ clause.values[n] = Str("%" \o v \o "%")

\* C9: for nameLike (companies) or titleLike (jobs) with value v the builder
\* emits <column> ILIKE $n and pushes %v% at position n of values; {nameLike:
\* "net"} alone gives name ILIKE $1 and ["%net%"].
C9_SubstringMatch ==
  /\ ( /\ Ran("Company._sqlForFilter")
       /\ In("nameLike", arg.filterParams)
       /\ ~ret.threw ) =>
       LikeEmitted(ret.value, "name", Get(arg.filterParams, "nameLike").s)
  /\ ( /\ Ran("Job._sqlForFilter")
       /\ In("titleLike", arg.filterParams) ) =>
       (~ret.threw /\ LikeEmitted(ret.value, "title", Get(arg.filterParams, "titleLike").s))
  /\ ( /\ Ran("Company._sqlForFilter")
       /\ arg.filterParams = << Entry("nameLike", Str("net")) >> ) =>
       /\ ~ret.threw
       /\ Render(ret.value.whereStatement) = "name ILIKE $1"
       /\ ret.value.values = << Str("%net%") >>

C9_Witness ==
  /\ Ran("Company._sqlForFilter")
  /\ arg.filterParams = << Entry("nameLike", Str("net")) >>
  /\ ~ret.threw
  /\ Render(ret.value.whereStatement) = "name ILIKE $1"
  /\ ret.value.values = << Str("%net%") >>

\* the first piece of each fragment of a WHERE text
Heads(whereStatement) ==
  LET frags == SplitOn(whereStatement, " AND ")
  IN [i \in 1..Len(frags) |-> frags[i][1]]

\* the fixed order of the fragments of the two builders
FixedOrder ==
  << "name ILIKE ", "title ILIKE ", "num_employees >= ", "salary >= ",
     "num_employees <= ", "equity > 0" >>

\* s is FixedOrder with some elements left out
InFixedOrder(s) ==
  LET Present(h) == \E i \in 1..Len(s) : s[i] = h
  IN s = SelectSeq(FixedOrder, Present)

\* C10: the filter builders emit the fragments in a fixed order joined by
\* " AND ", so the same key/value pairs in another key order give the same
\* text and values; sqlForPartialUpdate numbers in the input's key order,
\* so reordering the entries reorders the fragments and the values.
C10_OrderOfKeys ==
  /\ Ran("Company._sqlForFilter") =>
       /\ \A p \in Permutations(1..Len(arg.filterParams)) :
            Company_sqlForFilter(Reordered(arg.filterParams, p)) = ret
       /\ ~ret.threw => InFixedOrder(Heads(ret.value.whereStatement))
  /\ Ran("Job._sqlForFilter") =>
       /\ \A p \in Permutations(1..Len(arg.filterParams)) :
            Job_sqlForFilter(Reordered(arg.filterParams, p)) = ret
       /\ ~ret.threw => InFixedOrder(Heads(ret.value.whereStatement))
  /\ (Ran("sqlForPartialUpdate") /\ ~ret.threw) =>
       \A p \in Permutations(1..Len(arg.dataToUpdate)) :
         LET other == sqlForPartialUpdate(Reordered(arg.dataToUpdate, p), arg.jsToSql)
             frags == SplitOn(ret.value.setCols, ", ")
             moved == SplitOn(other.value.setCols, ", ")
         IN /\ other.value.values = [i \in 1..Len(p) |-> ret.value.values[p[i]]]
            /\ \A i \in 1..Len(p) :
                 /\ moved[i][2] = frags[p[i]][2]
                 /\ moved[i][4] = Placeholder(i)

C10_Witness ==
  /\ Ran("Job._sqlForFilter")
  /\ arg.filterParams = << Entry("hasEquity", Bool(TRUE)), Entry("minSalary", Num(1)),
                           Entry("titleLike", Str("net")) >>
  /\ ~ret.threw
  /\ Render(ret.value.whereStatement) = "title ILIKE $1 AND salary >= $2 AND equity > 0"
  /\ ret.value.values = << Str("%net%"), Num(1) >>

----------------------------------------------------------------------------
(* The generated clause: placeholders and values *)

\* the value the criterion whose fragment starts with head binds
CriterionValue(head, filterParams) ==
  CASE head = "name ILIKE " ->
         Str("%" \o Get(filterParams, "nameLike").s \o "%")
    [] head = "title ILIKE " ->
         Str("%" \o Get(filterParams, "titleLike").s \o "%")
    [] head = "num_employees >= " -> Get(filterParams, "minEmployees")
    [] head = "num_employees <= " -> Get(filterParams, "maxEmployees")
    [] head = "salary >= " -> Get(filterParams, "minSalary")
    [] OTHER -> Undefined

\* in a WHERE text every fragment that has a placeholder $k binds values[k]
\* to the value of its criterion
WhereBindsValues(clause, filterParams) ==
  LET frags == SplitOn(clause.whereStatement, " AND ")
  IN \A f \in 1..Len(frags) :
       \/ PlaceholdersOf(frags[f]) = << >>
       \/ \E k \in 1..Len(clause.values) :
            /\ PlaceholdersOf(frags[f]) = << Placeholder(k) >>
            /\ clause.values[k] = CriterionValue(frags[f][1], filterParams)

\* C11: whenever a builder returns, the placeholders of the text are $1..$n
\* in the order emitted, n is values.length, and the fragment that carries
\* $k has its value at values[k-1].
C11_PlaceholdersMatchValues ==
  /\ (Ran("sqlForPartialUpdate") /\ ~ret.threw) =>
       LET frags == SplitOn(ret.value.setCols, ", ")
       IN /\ PlaceholdersOf(ret.value.setCols) = Numbered(Len(ret.value.values))
          /\ \A k \in 1..Len(ret.value.values) :
               /\ PlaceholdersOf(frags[k]) = << Placeholder(k) >>
               /\ ret.value.values[k] = arg.dataToUpdate[k].v
  /\ ((Ran("Company._sqlForFilter") \/ Ran("Job._sqlForFilter")) /\ ~ret.threw) =>
       /\ PlaceholdersOf(ret.value.whereStatement) = Numbered(Len(ret.value.values))
       /\ WhereBindsValues(ret.value, arg.filterParams)

C11_Witness ==
  /\ Ran("Job._sqlForFilter")
  /\ arg.filterParams = << Entry("minSalary", Num(2)), Entry("hasEquity", Bool(TRUE)) >>
  /\ ~ret.threw
  /\ Render(ret.value.whereStatement) = "salary >= $1 AND equity > 0"
  /\ ret.value.values = << Num(2) >>

\* the objects that have the keys of o in the same order and values drawn
\* from the entries E (hasEquity keeps its value)
SameKeys(o, E) ==
  LET V == { e.v : e \in E }
      candidates == { [i \in 1..Len(o) |-> Entry(o[i].k, vs[i])] : vs \in [1..Len(o) -> V] }
  IN { o2 \in candidates :
         \A i \in 1..Len(o) :
           /\ o2[i] \in E
           /\ o[i].k = "hasEquity" => o2[i].v = o[i].v }

\* C12: no supplied value reaches the clause text: two inputs with the same
\* keys in the same order (and the same hasEquity) but other values give the
\* same text; the values are only in the value list.
C12_ValuesNotInText ==
  /\ (Ran("sqlForPartialUpdate") /\ ~ret.threw) =>
       \A d \in SameKeys(arg.dataToUpdate, UpdateEntries) :
         LET other == sqlForPartialUpdate(d, arg.jsToSql)
         IN ~other.threw /\ other.value.setCols = ret.value.setCols
  /\ (Ran("Company._sqlForFilter") /\ ~ret.threw) =>
       \A f \in SameKeys(arg.filterParams, CompanyFilterEntries) :
         LET other == Company_sqlForFilter(f)
         IN ~other.threw => other.value.whereStatement = ret.value.whereStatement
  /\ (Ran("Job._sqlForFilter") /\ ~ret.threw) =>
       \A f \in SameKeys(arg.filterParams, JobFilterEntries) :
         LET other == Job_sqlForFilter(f)
         IN ~other.threw /\ other.value.whereStatement = ret.value.whereStatement

C12_Witness ==
  /\ Ran("Job._sqlForFilter")
  /\ arg.filterParams = << Entry("titleLike", Str("net")), Entry("minSalary", Num(1)) >>
  /\ ~ret.threw
  /\ ret.value.whereStatement
       = Job_sqlForFilter(<< Entry("titleLike", Str("c")), Entry("minSalary", Num(2)) >>).value.whereStatement
  /\ ret.value.values = << Str("%net%"), Num(1) >>

----------------------------------------------------------------------------
(* The model methods and the tables *)

\* the column a field of the update data is written to
ColumnOf(key) ==
  CASE key = "numEmployees" -> "num_employees"
    [] key = "logoUrl" -> "logo_url"
    [] OTHER -> key

\* the column holds the supplied value (a NUMERIC column holds it as text)
Holds(col, stored, supplied) ==
  IF supplied = Null THEN stored = Null
  ELSE IF col = "equity" THEN stored = Str(ToStr(supplied))
  ELSE stored = supplied

\* the row after an update with data: the supplied fields hold the supplied
\* values, every other column is as before
UpdatedRow(before, after, data) ==
  \A col \in DOMAIN before :
    IF \E i \in 1..Len(data) : ColumnOf(data[i].k) = col
    THEN \A i \in 1..Len(data) :
           ColumnOf(data[i].k) = col => Holds(col, after[col], data[i].v)
    ELSE after[col] = before[col]

\* C14: Job.update and Company.update on an existing row set exactly the
\* supplied fields to the supplied values, leave the row's other fields and
\* all other rows unchanged, and return the row as it is after the update.
C14_UpdateFrame ==
  [][/\ (op = "Job.update" /\ ret = Pending /\ arg.id \in DOMAIN jobs
           /\ arg.data # << >>) =>
          /\ ~ret'.threw
          /\ DOMAIN jobs' = DOMAIN jobs
          /\ UpdatedRow(jobs[arg.id], jobs'[arg.id], arg.data)
          /\ \A id \in DOMAIN jobs \ {arg.id} : jobs'[id] = jobs[id]
          /\ companies' = companies
          /\ ret'.value = [id |-> Num(arg.id), title |-> jobs'[arg.id].title,
                           salary |-> jobs'[arg.id].salary,
                           equity |-> jobs'[arg.id].equity,
                           companyHandle |-> jobs'[arg.id].company_handle]
     /\ (op = "Company.update" /\ ret = Pending /\ arg.handle \in DOMAIN companies
           /\ arg.data # << >>) =>
          /\ ~ret'.threw
          /\ DOMAIN companies' = DOMAIN companies
          /\ UpdatedRow(companies[arg.handle], companies'[arg.handle], arg.data)
          /\ \A h \in DOMAIN companies \ {arg.handle} : companies'[h] = companies[h]
          /\ jobs' = jobs
          /\ ret'.value = [handle |-> Str(arg.handle),
                           name |-> companies'[arg.handle].name,
                           description |-> companies'[arg.handle].description,
                           numEmployees |-> companies'[arg.handle].num_employees,
                           logoUrl |-> companies'[arg.handle].logo_url]]_vars

C14_Witness ==
  /\ Ran("Company.update")
  /\ arg.handle = "c1"
  /\ arg.data = << Entry("numEmployees", Num(10)), Entry("logoUrl", Null) >>
  /\ ~ret.threw
  /\ companies["c1"] = [name |-> Str("C1"), description |-> Str("Desc1"),
                        num_employees |-> Num(10), logo_url |-> Null]
  /\ companies["c2"] = InitCompanies["c2"]

\* C19: Job.update(id, {}) and Company.update(handle, {}) fail with a
\* BadRequestError before any statement is issued: the tables are unchanged,
\* whether or not the id or handle exists.
C19_EmptyUpdateRejected ==
  [][((op = "Job.update" \/ op = "Company.update") /\ ret = Pending
        /\ arg.data = << >>) =>
       /\ ret'.threw
       /\ ret'.err = "BadRequestError"
       /\ query' = NoQuery
       /\ jobs' = jobs
       /\ companies' = companies]_vars

C19_Witness ==
  /\ Ran("Company.update")
  /\ arg = [handle |-> "nope", data |-> << >>]
  /\ ret = Throw("BadRequestError", "No data")
  /\ query = NoQuery

Removed(id) ==
  \E i \in 1..Len(log) :
    log[i].op = "Job.remove" /\ log[i].arg.id = id /\ ~log[i].ret.threw

\* a successful Job.remove deletes the row of its id and nothing else
RemoveDeletesOne ==
  (op = "Job.remove" /\ ret = Pending /\ ~ret'.threw) =>
    /\ arg.id \in DOMAIN jobs
    /\ DOMAIN jobs' = DOMAIN jobs \ {arg.id}
    /\ \A id \in DOMAIN jobs' : jobs'[id] = jobs[id]
    /\ companies' = companies

\* As stated: after Job.remove(id) succeeded, every later Job.get, Job.update
\* or Job.remove of that id throws NotFoundError.
C20_AnyLaterCallNotFound ==
  [][/\ RemoveDeletesOne
     /\ (ret = Pending /\ op \in {"Job.get", "Job.update", "Job.remove"}
           /\ Removed(arg.id)) =>
          /\ ret'.threw
          /\ ret'.err = "NotFoundError"]_vars

\* C20: after Job.remove(id) succeeded no row has that id: exactly that row
\* was deleted, the other rows are unchanged, and a later Job.get, Job.remove
\* or Job.update with non-empty data of that id throws NotFoundError
\* (Job.update with {} throws BadRequestError, as for any id).
C20_RemovedStaysGone ==
  [][/\ RemoveDeletesOne
     /\ (ret = Pending /\ op \in {"Job.get", "Job.update", "Job.remove"}
           /\ Removed(arg.id)) =>
          /\ arg.id \notin DOMAIN jobs
          /\ ret'.threw
          /\ ret'.err = IF op = "Job.update" /\ arg.data = << >>
                        THEN "BadRequestError" ELSE "NotFoundError"]_vars

C20_Witness ==
  /\ Len(log) = 3
  /\ log[1] = [op |-> "Job.remove", arg |-> [id |-> 1], ret |-> Return(Undefined)]
  /\ log[2].op = "Job.create"
  /\ log[3] = [op |-> "Job.get", arg |-> [id |-> 1],
               ret |-> Throw("NotFoundError", "No job: 1")]
  /\ DOMAIN jobs = {2, 3}
  /\ jobs[2] = InitJobs[2]

\* C18: Company.create throws BadRequestError and inserts nothing when the
\* handle is already in the table; otherwise it inserts exactly one row with
\* the given handle, name, description, numEmployees and logoUrl, and returns it.
C18_CreateOrDuplicate ==
  [][(op = "Company.create" /\ ret = Pending) =>
       LET h == Get(arg.data, "handle").s
       IN IF h \in DOMAIN companies
          THEN /\ ret'.threw
               /\ ret'.err = "BadRequestError"
               /\ companies' = companies
               /\ jobs' = jobs
          ELSE /\ DOMAIN companies' = DOMAIN companies \cup {h}
               /\ \A k \in DOMAIN companies : companies'[k] = companies[k]
               /\ companies'[h] = [name |-> Get(arg.data, "name"),
                                   description |-> Get(arg.data, "description"),
                                   num_employees |-> Get(arg.data, "numEmployees"),
                                   logo_url |-> Get(arg.data, "logoUrl")]
               /\ jobs' = jobs
               /\ ret' = Return([handle |-> Str(h), name |-> Get(arg.data, "name"),
                                 description |-> Get(arg.data, "description"),
                                 numEmployees |-> Get(arg.data, "numEmployees"),
                                 logoUrl |-> Get(arg.data, "logoUrl")])]_vars

C18_Witness ==
  /\ Ran("Company.create")
  /\ Get(arg.data, "handle") = Str("c1")
  /\ ret = Throw("BadRequestError", "Duplicate company: c1")
  /\ companies = InitCompanies

----------------------------------------------------------------------------
(* The filter methods *)

\* text contains the search string, letter case aside
ContainsIgnoringCase(text, search) ==
  LET t == [i \in 1..Len(Chars(text)) |-> LowerChar(Chars(text)[i])]
      l == [i \in 1..Len(Chars(search)) |-> LowerChar(Chars(search)[i])]
  IN \E i \in 0..(Len(t) - Len(l)) : SubSeq(t, i + 1, i + Len(l)) = l

\* a job row satisfies every criterion supplied
JobSatisfies(row, filterParams) ==
  /\ In("titleLike", filterParams) =>
       ContainsIgnoringCase(row.title.s, Get(filterParams, "titleLike").s)
  /\ In("minSalary", filterParams) =>
       row.salary # Null /\ row.salary.n >= Get(filterParams, "minSalary").n
  /\ (In("hasEquity", filterParams) /\ Get(filterParams, "hasEquity") = Bool(TRUE)) =>
       row.equity \in {Str("0.1"), Str("0.2")}

\* a company row satisfies every criterion supplied
CompanySatisfies(row, filterParams) ==
  /\ In("nameLike", filterParams) =>
       ContainsIgnoringCase(row.name.s, Get(filterParams, "nameLike").s)
  /\ In("minEmployees", filterParams) =>
       row.num_employees # Null
         /\ row.num_employees.n >= Get(filterParams, "minEmployees").n
  /\ In("maxEmployees", filterParams) =>
       row.num_employees # Null
         /\ row.num_employees.n <= Get(filterParams, "maxEmployees").n

\* the elements of a list
Elements(l) == { l[i] : i \in 1..Len(l) }

----------------------------------------------------------------------------
(* The job routes *)

\* C17: POST /jobs, PATCH /jobs/:id and DELETE /jobs/:id change the jobs
\* table only for an admin: a user who is no admin, and for PATCH and DELETE
\* also an anonymous caller, is answered 401 with the table unchanged;
\* GET /jobs and GET /jobs/:id answer every caller alike, never with 401.
C17_MutationsAdminOnly ==
  [][ret = Pending =>
       /\ jobs' # jobs => arg.caller = "admin"
       /\ (op \in {"POST /jobs", "PATCH /jobs/:id", "DELETE /jobs/:id"}
             /\ arg.caller = "user") =>
            ret'.status = 401 /\ jobs' = jobs /\ nextId' = nextId
       /\ (op \in {"PATCH /jobs/:id", "DELETE /jobs/:id"} /\ arg.caller = "anon") =>
            ret'.status = 401 /\ jobs' = jobs
       /\ op \in {"GET /jobs", "GET /jobs/:id"} =>
            /\ ret'.status # 401
            /\ (op = "GET /jobs" /\ arg.query = << >>) => ret'.status = 200
            /\ (op = "GET /jobs/:id" /\ arg.id \in DOMAIN jobs) => ret'.status = 200]_vars

C17_Witness ==
  /\ Ran("PATCH /jobs/:id")
  /\ arg = [caller |-> "user", id |-> 1, body |-> << Entry("title", Str("j1-new")) >>]
  /\ ret.status = 401
  /\ jobs = InitJobs

\* the calls of model methods a request made, as its step logged them
ModelCallsOf(before, after) ==
  { after[i] : i \in (Len(before) + 1)..(Len(after) - 1) }

CalledBy(before, after) == { c.op : c \in ModelCallsOf(before, after) }

\* C22: GET /jobs with an empty query string answers with every job row,
\* ordered by id, from Job.findAll, and calls neither Job.filter nor the
\* filter builder; with a query parameter it never calls Job.findAll, and
\* calls Job.filter (and through it the builder) once the query is valid.
C22_ListingOrFilter ==
  [][(op = "GET /jobs" /\ ret = Pending) =>
       IF arg.query = << >>
       THEN /\ CalledBy(log, log') = {"Job.findAll"}
            /\ ret'.status = 200
            /\ Elements(ret'.body.jobs) = { JobRecord(jobs, id) : id \in DOMAIN jobs }
            /\ Len(ret'.body.jobs) = Cardinality(DOMAIN jobs)
            /\ \A i, j \in 1..Len(ret'.body.jobs) :
                 i < j => ret'.body.jobs[i].id.n < ret'.body.jobs[j].id.n
       ELSE /\ "Job.findAll" \notin CalledBy(log, log')
            /\ jobFilterSchemaValid(ConvertQuery(arg.query)) =>
                 CalledBy(log, log') = {"Job._sqlForFilter", "Job.filter"}]_vars

C22_Witness ==
  /\ Ran("GET /jobs")
  /\ arg = [caller |-> "anon", query |-> << >>]
  /\ ret.status = 200
  /\ Len(ret.body.jobs) = 2
  /\ ret.body.jobs[2].title = Str("j2")
  /\ log[1].op = "Job.findAll"

----------------------------------------------------------------------------
(* Company._sqlForFilter: bounds in range *)

\* C23: Company._sqlForFilter accepts every filterParams with
\* minEmployees <= maxEmployees, equal bounds included: it throws nothing and
\* returns `num_employees >= $k AND num_employees <= $(k+1)` after the name
\* fragment, if any, with minEmployees and maxEmployees last in the values,
\* in that order.
C23_RangeAccepted ==
  (/\ Ran("Company._sqlForFilter")
   /\ In("minEmployees", arg.filterParams)
   /\ In("maxEmployees", arg.filterParams)
   /\ Get(arg.filterParams, "minEmployees").n <= Get(arg.filterParams, "maxEmployees").n) =>
    /\ ~ret.threw
    /\ LET k == IF In("nameLike", arg.filterParams) THEN 2 ELSE 1
           frags == SplitOn(ret.value.whereStatement, " AND ")
       IN /\ Len(frags) = k + 1
          /\ frags[k] = << "num_employees >= ", Placeholder(k) >>
          /\ frags[k + 1] = << "num_employees <= ", Placeholder(k + 1) >>
          /\ Len(ret.value.values) = k + 1
          /\ ret.value.values[k] = Get(arg.filterParams, "minEmployees")
          /\ ret.value.values[k + 1] = Get(arg.filterParams, "maxEmployees")

C23_Witness ==
  /\ Ran("Company._sqlForFilter")
  /\ arg.filterParams = << Entry("minEmployees", Num(2)), Entry("maxEmployees", Num(2)) >>
  /\ ~ret.threw
  /\ Render(ret.value.whereStatement) = "num_employees >= $1 AND num_employees <= $2"
  /\ ret.value.values = << Num(2), Num(2) >>

----------------------------------------------------------------------------
(* The UPDATE statements: the placeholder of the row key *)

\* the statement binds key to $(n+1) after n SET fragments numbered $1..$n,
\* and passes it last among n+1 values
KeyBoundLast(q, where, n, key) ==
  \E w \in 1..Len(q.text) :
    /\ q.text[w] = where
    /\ q.text[w + 1] = Placeholder(n + 1)
    /\ PlaceholdersOf(SubSeq(q.text, 1, w - 1)) = Numbered(n)
    /\ Placeholder(n + 1) \notin Elements(PlaceholdersOf(SubSeq(q.text, 1, w - 1)))
    /\ Len(q.values) = n + 1
    /\ q.values[n + 1] = key

\* C24: for non-empty data, Job.update and Company.update bind the row key to
\* $(n+1), n being the number of fields updated, and pass it as the last of
\* n+1 values; the WHERE placeholder is none of the SET placeholders $1..$n.
C24_KeyPlaceholderLast ==
  /\ (Ran("Job.update") /\ arg.data # << >>) =>
       KeyBoundLast(query, " WHERE id = ", Len(arg.data), Num(arg.id))
  /\ (Ran("Company.update") /\ arg.data # << >>) =>
       KeyBoundLast(query, " WHERE handle = ", Len(arg.data), Str(arg.handle))

C24_Witness ==
  /\ Ran("Company.update")
  /\ arg = [handle |-> "c1",
            data |-> << Entry("name", Str("New")), Entry("numEmployees", Num(10)) >>]
  /\ query.values = << Str("New"), Num(10), Str("c1") >>
  /\ PlaceholdersOf(query.text) = << "$1", "$2", "$3" >>

----------------------------------------------------------------------------
(* GET /jobs: the filter path *)

\* C25: on the filter path of GET /jobs, when Job.filter returns no rows the
\* body is { message: "No jobs found" } and has no jobs key; when it returns
\* rows the body is { jobs: [...] } with those rows, ordered by id.
C25_NoJobsFound ==
  [][(op = "GET /jobs" /\ ret = Pending) =>
       \A c \in ModelCallsOf(log, log') :
         (c.op = "Job.filter" /\ ~c.ret.threw) =>
           /\ ret'.status = 200
           /\ IF c.ret.value = << >>
              THEN /\ DOMAIN ret'.body = {"message"}
                   /\ ret'.body.message = "No jobs found"
              ELSE /\ DOMAIN ret'.body = {"jobs"}
                   /\ ret'.body.jobs = c.ret.value
                   /\ \A i, j \in 1..Len(ret'.body.jobs) :
                        i < j => ret'.body.jobs[i].id.n < ret'.body.jobs[j].id.n]_vars

C25_Witness ==
  /\ Ran("GET /jobs")
  /\ arg.query = << Entry("titleLike", Str("net")) >>
  /\ ret = Response(200, [message |-> "No jobs found"])
  /\ log[2].op = "Job.filter"
  /\ log[2].ret = Return(<< >>)

\* the spellings of true among the query string values, letter case aside
TrueSpellings == {"true", "TRUE", "True"}

\* C26: GET /jobs hands hasEquity on as true exactly when the query string
\* value is "true" in any letter case, as false otherwise; a request whose
\* only parameter is hasEquity with another value ends in the BadRequestError
\* of Job._sqlForFilter (400), never in the unfiltered listing.
C26_HasEquityCoercion ==
  [][(op = "GET /jobs" /\ ret = Pending /\ In("hasEquity", arg.query)) =>
       /\ \A c \in ModelCallsOf(log, log') :
            Get(c.arg.filterParams, "hasEquity")
              = Bool(Get(arg.query, "hasEquity").s \in TrueSpellings)
       /\ (Len(arg.query) = 1 /\ Get(arg.query, "hasEquity").s \notin TrueSpellings) =>
            /\ \E c \in ModelCallsOf(log, log') :
                 /\ c.op = "Job._sqlForFilter"
                 /\ c.ret.threw
                 /\ c.ret.err = "BadRequestError"
                 /\ ret'.body.error.message = c.ret.message
            /\ ret'.status = 400
            /\ "Job.findAll" \notin CalledBy(log, log')
            /\ "jobs" \notin DOMAIN ret'.body]_vars

C26_Witness ==
  /\ Ran("GET /jobs")
  /\ arg.query = << Entry("hasEquity", Str("false")) >>
  /\ ret.status = 400
  /\ ret.body.error.message = "No search valid search parameters"
  /\ log[1].op = "Job._sqlForFilter"
  /\ log[1].arg.filterParams = << Entry("hasEquity", Bool(FALSE)) >>

----------------------------------------------------------------------------
(* C27 *)

\* the two calls create a company of the same handle
SameHandle(p, q) ==
  p # q /\ Get(arg[p].data, "handle") = Get(arg[q].data, "handle")

\* C27: under any interleaving of two Company.create calls with the same
\* handle, the two calls are never both past the duplicate check with their
\* INSERT still to run, and once both have ended at most one has returned a
\* company and every call that threw has thrown BadRequestError.
C27_OneCreatesOtherBadRequest ==
  \A p, q \in Procs :
    SameHandle(p, q) =>
      /\ ~(pc[p] = "insert" /\ pc[q] = "insert")
      /\ (pc[p] = "done" /\ pc[q] = "done") =>
           /\ ret[p].threw \/ ret[q].threw
           /\ ret[p].threw => ret[p].err = "BadRequestError"
           /\ ret[q].threw => ret[q].err = "BadRequestError"

====
